---- MODULE Spec2Model ----
(***************************************************************************)
(* State-machine model of the RTMP ingest server's stream lifecycle:       *)
(* stream.Manager (the registry of StreamProcess values kept in a          *)
(* sync.Map), StreamProcess (monitor goroutine, Stop) and the per          *)
(* connection rtmp.Handler (OnPublish, OnClose and its reconnect timer).   *)
(*                                                                         *)
(* Every step of the model holds at most one operation of the Go code on   *)
(* state that goroutines share (a sync.Map Load/Store/Delete, an           *)
(* atomic.Bool Load/Store/Swap, a system call), so the interleavings of    *)
(* the model are the interleavings of the goroutines of the program.       *)
(***************************************************************************)
EXTENDS Naturals, FiniteSets, Sequences, TLC

\* Number of RTMP connections (one rtmp.Handler each) open at the same time.
MaxConns == 2

\* Number of FFmpeg subprocesses that can be started in one behaviour.
MaxSessions == 3

\* Number of connections the server accepts after the first MaxConns, each in
\* the place of a connection that is gone.
MaxServes == 1

\* Publishing names (cmd.PublishingName) the connections draw from.
Users == {"alice", "bob"}

Conns == 1..MaxConns

SessionIds == 1..MaxSessions

\* The nil *StreamProcess / a missing sync.Map key.
Nil == 0

VARIABLES
    streams,    \* Manager.streams: username -> session id, Nil when the key is absent
    sp,         \* the StreamProcess values ever allocated, by session id
    dirs,       \* the usernames whose output directory exists on disk
    handlers,   \* the rtmp.Handler of every connection, with its goroutines
    served,     \* how many connections replaced one that was gone
    hist,       \* history of the publishes and teardowns, kept in GraceSpec
    flv,        \* the flv.Writer of every connection and the bytes each session's
                \* stdin pipe has received, as the Write calls that delivered them
    tag,        \* one call of WriteTag on a buffer: its arguments and what it wrote
    auth,       \* an Authorizer, one target, and what its methods returned for it
    listing     \* one call of Manager.GetActiveStreams: its Range and its result

\* What the steps of the registry, of the sessions and of OnPublish/OnClose
\* leave alone.
rest == <<flv, tag, auth, listing>>

vars == <<streams, sp, dirs, handlers, served, hist, rest>>

----------------------------------------------------------------------------
\* A session id that no createNewStream call has used yet; the fields of a
\* StreamProcess and of its subprocess, with counters of what Stop did.
\* reaped is a sp.cmd.Wait() having returned with the exit status: it has set
\* ProcessState and received the one result of the command's context watcher.
\* mon and stopWait are the positions of the monitor goroutine and of the
\* goroutine Stop starts to wait for the exit.
Unborn == [username |-> "", born |-> FALSE, active |-> FALSE, proc |-> "none",
           reaped |-> FALSE, stdinOpen |-> FALSE,
           cancelled |-> FALSE, mon |-> "none", stopWait |-> "none",
           teardowns |-> 0, stdinCloses |-> 0, kills |-> 0,
           rmScheduled |-> 0, rmDone |-> 0]

\* h.connectionInfo == nil.  A string of a connect command or of a pattern is
\* the sequence of its symbols ('/', '{', a word, ...); Vars maps the names
\* of the captures to their texts.
NoInfo == [set |-> FALSE, App |-> <<>>, TCURL |-> <<>>, Vars |-> <<>>]

\* NewHandler: no stream attached, nothing published yet.  target is the
\* TCURL of the connect command, once OnConnect was called.  name and stream
\* are the argument and the local variable of the GetOrCreateStream call in
\* progress (none outside a call); timer is the position of the goroutine
\* OnClose starts.  inGrace is a history variable of the call in progress:
\* the active sessions of the published name that a closed connection's
\* reconnect delay was still running for when the publish arrived.
NewHandler == [pc |-> "new", name |-> "", stream |-> Nil, streamProcess |-> Nil,
               timer |-> "none", inGrace |-> {}, connectionInfo |-> NoInfo,
               target |-> <<>>]

\* The handler of a connection whose OnConnect was accepted under a pattern
\* that captures nothing: OnPublish comes next.
Connected ==
    [NewHandler EXCEPT !.pc = "idle", !.target = <<"/", "live">>,
                       !.connectionInfo = [set |-> TRUE, App |-> <<"live">>,
                                           TCURL |-> <<"/", "live">>, Vars |-> <<>>]]

\* A closed connection whose goroutine has ended: nothing refers to its
\* Handler any more.
Gone == [NewHandler EXCEPT !.pc = "closed", !.timer = "done"]

\* No history, and none kept (on is false).  Of a connection h: sleepers[h]
\* is the closed connections whose reconnect delay was running for an active
\* session of the name when the publish of h arrived, rejoined[h] those of
\* them whose delay was still running for the session h was handed, old[h]
\* the sessions of the name that existed when a Stop of one of them returned
\* before the publish of h arrived.  prior[s] is the sessions of its name
\* that existed when the Stop that tore s down returned.
NoHist == [on |-> FALSE,
           sleepers |-> [h \in Conns |-> {}], rejoined |-> [h \in Conns |-> {}],
           old |-> [h \in Conns |-> {}], prior |-> [s \in SessionIds |-> {}]]

\* flv.NewWriter: header not written yet, no call in progress.  frames is
\* the kinds of the frames delivered to the connection so far, failed the
\* frames (by position in frames) whose callback returned an error.
NewWriter == [headerOnce |-> FALSE, pc |-> "idle", frames |-> <<>>, failed |-> {}]

\* Every connection with a Writer of its own, nothing written to any pipe.
NoFlv == [writer |-> [h \in Conns |-> NewWriter], sink |-> [s \in SessionIds |-> <<>>]]

\* No call of WriteTag.
NoTag == [tagType |-> 0, timestamp |-> [hi |-> 0, lo |-> 0],
          data |-> [len |-> 0, fill |-> 0], called |-> FALSE, out |-> <<>>,
          err |-> FALSE]

\* No GetActiveStreams call yet.  must: the keys the map held when Range
\* began; todo: the keys Range has not come to; key, value: the entry handed
\* to the callback; result: activeStreams.
NoListing == [pc |-> "idle", must |-> {}, todo |-> {}, key |-> "", value |-> Nil,
              result |-> {}]

\* An Authorizer without patterns and no call made.
NoAuth == [patterns |-> <<>>, prefix |-> <<>>, path |-> <<>>, dupOk |-> FALSE,
           authDone |-> FALSE, authorized |-> FALSE,
           varsDone |-> FALSE, ok |-> FALSE, vars |-> <<>>, panic |-> FALSE,
           name |-> <<>>, valDone |-> FALSE, err |-> "nil"]

Init ==
    /\ listing = NoListing
    /\ streams = [u \in Users |-> Nil]
    /\ sp = [s \in SessionIds |-> Unborn]
    /\ dirs = {}
    /\ handlers = [h \in Conns |-> Connected]
    /\ served = 0
    /\ hist = NoHist
    /\ flv = NoFlv
    /\ tag = NoTag
    /\ auth = NoAuth

\* The id the next &StreamProcess{} allocation gets.
FreshIds == {s \in SessionIds : ~sp[s].born}

NextId == CHOOSE s \in FreshIds : \A t \in FreshIds : s <= t

\* StreamProcess.IsActive
IsActive(s) == sp[s].active

\* The active sessions of username u whose connection has closed and whose
\* reconnect delay (time.Sleep(ReconnectDelay) in OnClose) has not expired.
InGrace(u) ==
    {s \in SessionIds :
        /\ sp[s].born /\ sp[s].username = u /\ sp[s].active
        /\ \E g \in Conns : /\ handlers[g].pc = "closed"
                            /\ handlers[g].timer = "sleep"
                            /\ handlers[g].streamProcess = s}

\* The sessions created so far for username u.
SessionsOf(u) == {s \in SessionIds : sp[s].born /\ sp[s].username = u}

\* The closed connections whose reconnect delay (time.Sleep in OnClose) is
\* running for an active session of username u.
Sleepers(u) ==
    {g \in Conns : /\ handlers[g].pc = "closed" /\ handlers[g].timer = "sleep"
                   /\ sp[handlers[g].streamProcess].username = u
                   /\ sp[handlers[g].streamProcess].active}

\* Manager.GetActiveStreams: the keys whose value has its active flag set.
GetActiveStreams == {u \in DOMAIN streams : streams[u] # Nil /\ sp[streams[u]].active}

----------------------------------------------------------------------------
(***************************************************************************)
(* Handler.OnPublish and Manager.GetOrCreateStream, one atomic operation   *)
(* per step.  pc of a handler:                                             *)
(*   idle -> check -> (publishing | delete) -> mkdir -> start -> store     *)
(*        -> publishing,     mkdir/start -> failed,   then closed          *)
(***************************************************************************)

\* The key ValidateAuthentication looks up.
UsernameKey == <<"username">>

\* The publishing name u as a string of symbols: empty, or the one word u.
Name(u) == IF u = "" THEN <<>> ELSE <<u>>

\* ValidateAuthentication with the two names compared without regard to
\* case.
ValidateAuthentication_EqualFold(captured, publishingName) ==
    LET Lower(s) == [i \in DOMAIN s |-> IF s[i] = "Alice" THEN "alice" ELSE s[i]]
    IN  IF publishingName = <<>>
          THEN "empty"
          ELSE IF UsernameKey \in DOMAIN captured
                    /\ Lower(captured[UsernameKey]) # Lower(publishingName)
                 THEN "mismatch"
                 ELSE "nil"

\* ValidateAuthentication: an error for an empty publishingName, an error
\* when the map has a username that is not publishingName, else nil.
ValidateAuthentication(captured, publishingName) ==
    IF publishingName = <<>>
      THEN "empty"
      ELSE IF UsernameKey \in DOMAIN captured /\ captured[UsernameKey] # publishingName
             THEN "mismatch"
             ELSE "nil"

\* OnPublish going to the registry without ValidateAuthentication.
OnPublish_NoValidation(h, u) ==
    /\ handlers[h].pc = "idle"
    /\ handlers' = [handlers EXCEPT ![h].name = u,
                                    ![h].inGrace = InGrace(u),
                                    ![h].stream = streams[u],
                                    ![h].pc = IF streams[u] = Nil THEN "mkdir" ELSE "check"]
    /\ hist' = hist
    /\ UNCHANGED <<streams, sp, dirs, served, rest>>

\* OnPublish: with a connection context, ValidateAuthentication of its
\* Vars and cmd.PublishingName, whose error is returned; then
\* GetOrCreateStream(cmd.PublishingName), whose first operation is
\* sm.streams.Load(username).
OnPublish(h, u) ==
    /\ handlers[h].pc = "idle"
    /\ IF /\ handlers[h].connectionInfo.set
          /\ ValidateAuthentication(handlers[h].connectionInfo.Vars, Name(u)) # "nil"
         THEN /\ handlers' = [handlers EXCEPT ![h].pc = "refused"]
              /\ hist' = hist
         ELSE /\ handlers' = [handlers EXCEPT
                                ![h].name = u,
                                ![h].inGrace = InGrace(u),
                                ![h].stream = streams[u],
                                ![h].pc = IF streams[u] = Nil THEN "mkdir" ELSE "check"]
              /\ hist' = IF hist.on
                           THEN [hist EXCEPT
                                   !.sleepers[h] = Sleepers(u),
                                   !.old[h] = UNION {hist.prior[s] : s \in SessionsOf(u)}]
                           ELSE hist
    /\ UNCHANGED <<streams, sp, dirs, served, rest>>

\* CheckActive without the sp.active.Load() test: the loaded entry is
\* returned whether it is active or not.
CheckActive_NoActiveTest(h) ==
    /\ handlers[h].pc = "check"
    /\ handlers' = [handlers EXCEPT ![h].streamProcess = handlers[h].stream,
                                    ![h].stream = Nil, ![h].name = "",
                                    ![h].inGrace = {},
                                    ![h].pc = "publishing"]
    /\ UNCHANGED <<streams, sp, dirs, served, hist, rest>>

\* sp.active.Load() on the loaded entry: reuse it when it is active
\* (GetOrCreateStream returns, OnPublish attaches it), else go on to evict.
CheckActive(h) ==
    /\ handlers[h].pc = "check"
    /\ IF sp[handlers[h].stream].active
         THEN handlers' = [handlers EXCEPT ![h].streamProcess = handlers[h].stream,
                                           ![h].stream = Nil, ![h].name = "",
                                           ![h].inGrace = {},
                                           ![h].pc = "publishing"]
         ELSE handlers' = [handlers EXCEPT ![h].stream = Nil, ![h].pc = "delete"]
    /\ hist' = IF hist.on /\ sp[handlers[h].stream].active
                 THEN [hist EXCEPT !.rejoined[h] =
                         {g \in hist.sleepers[h] :
                             /\ handlers[g].timer = "sleep"
                             /\ handlers[g].streamProcess = handlers[h].stream}]
                 ELSE hist
    /\ UNCHANGED <<streams, sp, dirs, served, rest>>

\* sm.streams.Delete(username): removes whatever the key holds now.
DeleteInactive(h) ==
    /\ handlers[h].pc = "delete"
    /\ streams' = [streams EXCEPT ![handlers[h].name] = Nil]
    /\ handlers' = [handlers EXCEPT ![h].pc = "mkdir"]
    /\ UNCHANGED <<sp, dirs, served, hist, rest>>

\* createNewStream: os.MkdirAll(outputDir), which may fail.
MkdirAll(h) ==
    /\ handlers[h].pc = "mkdir"
    /\ \/ /\ dirs' = dirs \cup {handlers[h].name}
          /\ handlers' = [handlers EXCEPT ![h].pc = "start"]
       \/ /\ dirs' = dirs
          /\ handlers' = [handlers EXCEPT ![h].pc = "failed"]
    /\ UNCHANGED <<streams, sp, served, hist, rest>>

\* NewStreamProcess without stream.active.Store(true).
NewStreamProcess_NotActive(h) ==
    [Unborn EXCEPT !.username = handlers[h].name, !.born = TRUE,
                   !.proc = "running", !.stdinOpen = TRUE, !.mon = "wait"]

\* The StreamProcess createNewStream builds once cmd.Start() has succeeded:
\* fields set, active stored true, monitor goroutine started.
NewStreamProcess(h) ==
    [Unborn EXCEPT !.username = handlers[h].name, !.born = TRUE, !.active = TRUE,
                   !.proc = "running", !.stdinOpen = TRUE, !.mon = "wait"]

\* createNewStream: context.WithCancel, cmd.StdinPipe(), cmd.Start(), then
\* the construction of the StreamProcess.  StdinPipe or Start may fail: the
\* context is cancelled and the error returned to OnPublish.  Nothing built here is
\* visible to another goroutine before the monitor starts.
StartProcess(h) ==
    /\ handlers[h].pc = "start"
    /\ \/ /\ FreshIds # {}
          /\ sp' = [sp EXCEPT ![NextId] = NewStreamProcess(h)]
          /\ handlers' = [handlers EXCEPT ![h].stream = NextId, ![h].pc = "store"]
       \/ /\ sp' = sp
          /\ handlers' = [handlers EXCEPT ![h].pc = "failed"]
    /\ UNCHANGED <<streams, dirs, served, hist, rest>>

\* sm.streams.Store(username, stream); GetOrCreateStream returns the new
\* stream and OnPublish attaches it (h.streamProcess, h.flvWriter).
StoreStream(h) ==
    /\ handlers[h].pc = "store"
    /\ streams' = [streams EXCEPT ![handlers[h].name] = handlers[h].stream]
    /\ handlers' = [handlers EXCEPT ![h].streamProcess = handlers[h].stream,
                                    ![h].stream = Nil, ![h].name = "",
                                    ![h].inGrace = {},
                                    ![h].pc = "publishing"]
    /\ UNCHANGED <<sp, dirs, served, hist, rest>>

----------------------------------------------------------------------------
(***************************************************************************)
(* Handler.OnClose and the goroutine it starts.  timer of a handler:       *)
(*   none -> sleep -> (done | swap) -> (done | close) -> cancel -> select  *)
(*        -> done                                                          *)
(***************************************************************************)

\* OnClose: with a stream attached, start the reconnect-delay goroutine;
\* always clear the connection information.
OnClose(h) ==
    /\ handlers[h].pc \in {"rejected", "refused", "publishing", "failed"}
    /\ handlers' = IF handlers[h].streamProcess # Nil
                     THEN [handlers EXCEPT ![h].pc = "closed", ![h].timer = "sleep",
                                           ![h].connectionInfo = NoInfo]
                     ELSE [handlers EXCEPT ![h] = Gone]
    /\ hist' = [hist EXCEPT !.sleepers[h] = {}, !.rejoined[h] = {}, !.old[h] = {}]
    /\ UNCHANGED <<streams, sp, dirs, served, rest>>

\* time.Sleep(ReconnectDelay) is over: h.streamProcess.IsActive() decides
\* whether Stop is called.
ReconnectTimer(h) ==
    /\ handlers[h].timer = "sleep"
    /\ handlers' = IF IsActive(handlers[h].streamProcess)
                     THEN [handlers EXCEPT ![h].timer = "swap"]
                     ELSE [handlers EXCEPT ![h] = Gone]
    /\ UNCHANGED <<streams, sp, dirs, served, hist, rest>>

\* StopSwap with a plain Store(false) in the place of the Swap: every caller
\* goes on to the teardown.
StopSwap_StoreOnly(h) ==
    /\ handlers[h].timer = "swap"
    /\ LET s == handlers[h].streamProcess IN
         sp' = [sp EXCEPT ![s].active = FALSE, ![s].teardowns = @ + 1]
    /\ handlers' = [handlers EXCEPT ![h].timer = "close"]
    /\ UNCHANGED <<streams, dirs, served, hist, rest>>

\* StopSwap issuing the cancellation together with the Swap.
StopSwap_CancelsFirst(h) ==
    /\ handlers[h].timer = "swap"
    /\ LET s == handlers[h].streamProcess IN
         IF sp[s].active
           THEN /\ sp' = [sp EXCEPT ![s].active = FALSE, ![s].teardowns = @ + 1,
                                    ![s].cancelled = TRUE]
                /\ handlers' = [handlers EXCEPT ![h].timer = "close"]
           ELSE /\ sp' = sp
                /\ handlers' = [handlers EXCEPT ![h] = Gone]
    /\ UNCHANGED <<streams, dirs, served, hist, rest>>

\* Stop: if !sp.active.Swap(false) { return }
StopSwap(h) ==
    /\ handlers[h].timer = "swap"
    /\ LET s == handlers[h].streamProcess IN
         IF sp[s].active
           THEN /\ sp' = [sp EXCEPT ![s].active = FALSE, ![s].teardowns = @ + 1]
                /\ handlers' = [handlers EXCEPT ![h].timer = "close"]
           ELSE /\ sp' = sp
                /\ handlers' = [handlers EXCEPT ![h] = Gone]
    /\ UNCHANGED <<streams, dirs, served, hist, rest>>

\* Stop: sp.stdin.Close()
StopCloseStdin(h) ==
    /\ handlers[h].timer = "close"
    /\ LET s == handlers[h].streamProcess IN
         sp' = [sp EXCEPT ![s].stdinOpen = FALSE, ![s].stdinCloses = @ + 1]
    /\ handlers' = [handlers EXCEPT ![h].timer = "cancel"]
    /\ UNCHANGED <<streams, dirs, served, hist, rest>>

\* Stop: sp.cancel() (exec.CommandContext kills the process once the
\* context is done), then the start of the goroutine that calls
\* sp.cmd.Wait() and closes done.
StopCancel(h) ==
    /\ handlers[h].timer = "cancel"
    /\ sp' = [sp EXCEPT ![handlers[h].streamProcess].cancelled = TRUE,
                        ![handlers[h].streamProcess].stopWait = "call"]
    /\ handlers' = [handlers EXCEPT ![h].timer = "select"]
    /\ UNCHANGED <<streams, dirs, served, hist, rest>>

\* Stop's goroutine enters sp.cmd.Wait(): the call returns at once ("Wait was
\* already called") when a Wait has set ProcessState, else it waits for the
\* process.
StopWaitCall(s) ==
    /\ sp[s].stopWait = "call"
    /\ sp' = [sp EXCEPT ![s].stopWait = IF sp[s].reaped THEN "done" ELSE "wait"]
    /\ UNCHANGED <<streams, dirs, handlers, served, hist, rest>>

\* Stop's goroutine, in sp.cmd.Wait(): the process has exited and this Wait
\* receives the result of the command's context watcher, which is sent once;
\* Wait returns and done is closed.  exec.Cmd is not safe for concurrent use:
\* of two Wait calls in progress only one receives the result, the other
\* blocks for good.
StopWaitReturn(s) ==
    /\ sp[s].stopWait = "wait"
    /\ sp[s].proc = "exited"
    /\ ~sp[s].reaped
    /\ sp' = [sp EXCEPT ![s].reaped = TRUE, ![s].stdinOpen = FALSE,
                        ![s].stopWait = "done"]
    /\ UNCHANGED <<streams, dirs, handlers, served, hist, rest>>

\* The history once the Stop that tore session s down has returned: the
\* sessions of its name that exist at that time.
StopReturns(s) ==
    IF hist.on THEN [hist EXCEPT !.prior[s] = SessionsOf(sp[s].username)] ELSE hist

\* Stop: case <-done, then the start of the goroutine that removes the
\* output directory after CleanupDelay; Stop returns.
StopWaitDone(h) ==
    /\ handlers[h].timer = "select"
    /\ sp[handlers[h].streamProcess].stopWait = "done"
    /\ sp' = [sp EXCEPT ![handlers[h].streamProcess].rmScheduled = @ + 1]
    /\ handlers' = [handlers EXCEPT ![h] = Gone]
    /\ hist' = StopReturns(handlers[h].streamProcess)
    /\ UNCHANGED <<streams, dirs, served, rest>>

\* Stop: case <-time.After(cfg.CleanupDelay), sp.cmd.Process.Kill(), then
\* the start of the goroutine that removes the output directory; Stop
\* returns.
StopTimeout(h) ==
    /\ handlers[h].timer = "select"
    /\ sp' = [sp EXCEPT ![handlers[h].streamProcess].kills = @ + 1,
                        ![handlers[h].streamProcess].rmScheduled = @ + 1]
    /\ handlers' = [handlers EXCEPT ![h] = Gone]
    /\ hist' = StopReturns(handlers[h].streamProcess)
    /\ UNCHANGED <<streams, dirs, served, rest>>

\* The removal goroutine: os.RemoveAll(sp.outputDir), whose failure is
\* logged and not retried.
RemoveAll(s) ==
    /\ sp[s].rmScheduled > sp[s].rmDone
    /\ sp' = [sp EXCEPT ![s].rmDone = @ + 1]
    /\ \/ dirs' = dirs \ {sp[s].username}
       \/ dirs' = dirs
    /\ UNCHANGED <<streams, handlers, served, hist, rest>>

----------------------------------------------------------------------------
(***************************************************************************)
(* The FFmpeg subprocess and StreamProcess.monitor.                        *)
(***************************************************************************)

\* The subprocess ends by itself (FFmpeg error, end of input, crash).
ProcExit(s) ==
    /\ sp[s].proc = "running"
    /\ ~sp[s].cancelled /\ sp[s].kills = 0
    /\ sp' = [sp EXCEPT ![s].proc = "exited"]
    /\ UNCHANGED <<streams, dirs, handlers, served, hist, rest>>

\* The subprocess dies of the SIGKILL sent by the cancelled context or by
\* Process.Kill().
ProcKilled(s) ==
    /\ sp[s].proc = "running"
    /\ sp[s].cancelled \/ sp[s].kills > 0
    /\ sp' = [sp EXCEPT ![s].proc = "exited"]
    /\ UNCHANGED <<streams, dirs, handlers, served, hist, rest>>

\* monitor, in sp.cmd.Wait(), which it entered when the session was created:
\* the process has exited and this Wait receives the result of the command's
\* context watcher; Wait closes the parent's end of the stdin pipe and
\* returns.  It blocks for good when the Wait of Stop's goroutine has
\* received the result.
MonitorWait(s) ==
    /\ sp[s].mon = "wait"
    /\ sp[s].proc = "exited"
    /\ ~sp[s].reaped
    /\ sp' = [sp EXCEPT ![s].reaped = TRUE, ![s].stdinOpen = FALSE, ![s].mon = "store"]
    /\ UNCHANGED <<streams, dirs, handlers, served, hist, rest>>

\* MonitorStore without the sp.active.Store(false).
MonitorStore_NoStore(s) ==
    /\ sp[s].mon = "store"
    /\ sp' = [sp EXCEPT ![s].mon = "delete"]
    /\ UNCHANGED <<streams, dirs, handlers, served, hist, rest>>

\* monitor, deferred: sp.active.Store(false)
MonitorStore(s) ==
    /\ sp[s].mon = "store"
    /\ sp' = [sp EXCEPT ![s].active = FALSE, ![s].mon = "delete"]
    /\ UNCHANGED <<streams, dirs, handlers, served, hist, rest>>

\* MonitorDelete emptying the whole map.
MonitorDelete_Clear(s) ==
    /\ sp[s].mon = "delete"
    /\ streams' = [u \in DOMAIN streams |-> Nil]
    /\ sp' = [sp EXCEPT ![s].mon = "done"]
    /\ UNCHANGED <<dirs, handlers, served, hist, rest>>

\* monitor, deferred: sm.streams.Delete(sp.username)
MonitorDelete(s) ==
    /\ sp[s].mon = "delete"
    /\ streams' = [streams EXCEPT ![sp[s].username] = Nil]
    /\ sp' = [sp EXCEPT ![s].mon = "done"]
    /\ UNCHANGED <<dirs, handlers, served, hist, rest>>

\* The server accepts the next connection, which gets a Handler of its own
\* (NewHandler), in the place of one that is gone.
OnServe(h) ==
    /\ handlers[h] = Gone
    /\ served < MaxServes
    /\ served' = served + 1
    /\ handlers' = [handlers EXCEPT ![h] = Connected]
    /\ UNCHANGED <<streams, sp, dirs, hist, rest>>

----------------------------------------------------------------------------
\* The steps of the goroutines and of the subprocesses, and the close of a
\* connection.
Core ==
    \/ \E h \in Conns : CheckActive(h)
    \/ \E h \in Conns : DeleteInactive(h)
    \/ \E h \in Conns : MkdirAll(h)
    \/ \E h \in Conns : StartProcess(h)
    \/ \E h \in Conns : StoreStream(h)
    \/ \E h \in Conns : OnClose(h)
    \/ \E h \in Conns : ReconnectTimer(h)
    \/ \E h \in Conns : StopSwap(h)
    \/ \E h \in Conns : StopCloseStdin(h)
    \/ \E h \in Conns : StopCancel(h)
    \/ \E s \in SessionIds : StopWaitCall(s)
    \/ \E s \in SessionIds : StopWaitReturn(s)
    \/ \E h \in Conns : StopWaitDone(h)
    \/ \E h \in Conns : StopTimeout(h)
    \/ \E s \in SessionIds : RemoveAll(s)
    \/ \E s \in SessionIds : ProcExit(s)
    \/ \E s \in SessionIds : ProcKilled(s)
    \/ \E s \in SessionIds : MonitorWait(s)
    \/ \E s \in SessionIds : MonitorStore(s)
    \/ \E s \in SessionIds : MonitorDelete(s)

\* MaxConns connections publishing any of the names.
Next ==
    \/ \E h \in Conns, u \in Users : OnPublish(h, u)
    \/ Core

Spec == Init /\ [][Next]_vars

\* The goroutines keep running, timers expire, and a killed process dies.
\* Nothing makes a connection publish or close, or a subprocess end by itself.
Fairness ==
    /\ \A h \in Conns :
          /\ WF_vars(CheckActive(h)) /\ WF_vars(DeleteInactive(h))
          /\ WF_vars(MkdirAll(h)) /\ WF_vars(StartProcess(h))
          /\ WF_vars(StoreStream(h)) /\ WF_vars(ReconnectTimer(h))
          /\ WF_vars(StopSwap(h)) /\ WF_vars(StopCloseStdin(h))
          /\ WF_vars(StopCancel(h)) /\ WF_vars(StopWaitDone(h))
          /\ WF_vars(StopTimeout(h))
    /\ \A s \in SessionIds :
          /\ WF_vars(RemoveAll(s)) /\ WF_vars(ProcKilled(s))
          /\ WF_vars(StopWaitCall(s)) /\ WF_vars(StopWaitReturn(s))
          /\ WF_vars(MonitorWait(s))
          /\ WF_vars(MonitorStore(s)) /\ WF_vars(MonitorDelete(s))

FairSpec == Spec /\ Fairness

\* The name whose connections come and go in ServeSpec.
Reconnecting == {"alice"}

\* Connections of one name that close and are followed by new ones.
ServeNext ==
    \/ \E h \in Conns : OnServe(h)
    \/ \E h \in Conns, u \in Reconnecting : OnPublish(h, u)
    \/ Core

ServeSpec == Init /\ [][ServeNext]_vars

----------------------------------------------------------------------------
(***************************************************************************)
(* Properties of the registry and of the session lifecycle.                *)
(***************************************************************************)

\* A live session: active flag true and its subprocess running.
Live(s) == sp[s].born /\ sp[s].active /\ sp[s].proc = "running"

\* The Stop calls on session s that are past the Swap and have not returned.
TearingDown(s) ==
    {h \in Conns : /\ handlers[h].streamProcess = s
                   /\ handlers[h].timer \in {"close", "cancel", "select"}}

\* A Stop call is tearing session s down.
InTeardown(s) == TearingDown(s) # {}

\* The subprocess of s has exited and been reaped, its input pipe is closed,
\* its flag is false and the registry does not map its username to it.
Terminated(s) ==
    /\ sp[s].born /\ sp[s].proc = "exited" /\ sp[s].reaped
    /\ ~sp[s].stdinOpen /\ ~sp[s].active
    /\ streams[sp[s].username] # s

\* C1: in every reachable state no two distinct sessions of one username are
\* both live (active flag true, subprocess running).
C1_AtMostOneLivePerIdentity ==
    \A s, t \in SessionIds :
        (s # t /\ Live(s) /\ Live(t)) => sp[s].username # sp[t].username

\* C2: two GetOrCreateStream calls for one username that run at the same time,
\* with no entry and no earlier session for it, spawn one subprocess between
\* them: they never both hold a session of their own to store.
C2_ConcurrentCallsSpawnOnce ==
    \A h, g \in Conns :
        ( /\ h # g
          /\ handlers[h].pc = "store" /\ handlers[g].pc = "store"
          /\ handlers[h].name = handlers[g].name
          /\ SessionsOf(handlers[h].name) = {handlers[h].stream, handlers[g].stream} )
        => handlers[h].stream = handlers[g].stream

\* Handler h takes a step.
Steps(h) == handlers'[h] # handlers[h]

\* GetOrCreateStream starts with the Load of the name: a missing key leads
\* to createNewStream, an entry is examined.
C3_Load(h) ==
    (Steps(h) /\ handlers[h].pc = "idle") =>
        LET u == handlers'[h].name IN
          /\ streams[u] = Nil => handlers'[h].pc = "mkdir"
          /\ streams[u] # Nil => /\ handlers'[h].pc = "check"
                                 /\ handlers'[h].stream = streams[u]
          /\ streams' = streams /\ sp' = sp

\* An active entry is returned as it is: nothing spawned, registry unchanged.
C3_Reuse(h) ==
    (Steps(h) /\ handlers[h].pc = "check" /\ sp[handlers[h].stream].active) =>
        /\ handlers'[h].pc = "publishing"
        /\ handlers'[h].streamProcess = handlers[h].stream
        /\ streams' = streams /\ sp' = sp /\ dirs' = dirs

\* An inactive entry is never returned: the key is deleted and the call goes
\* on to createNewStream.
C3_Evict(h) ==
    /\ (Steps(h) /\ handlers[h].pc = "check" /\ ~sp[handlers[h].stream].active) =>
           handlers'[h].pc = "delete"
    /\ (Steps(h) /\ handlers[h].pc = "delete") =>
           /\ streams'[handlers[h].name] = Nil
           /\ handlers'[h].pc = "mkdir"

\* A subprocess is started only by a call that found no active entry, and
\* the session it gets is registered under the name and returned.
C3_SpawnAndRegister(h) ==
    /\ \A s \in SessionIds :
         (~sp[s].born /\ sp'[s].born /\ handlers'[h].stream = s) =>
             /\ handlers[h].pc = "start"
             /\ sp'[s].username = handlers[h].name /\ sp'[s].active
    /\ (Steps(h) /\ handlers[h].pc = "store") =>
           /\ streams'[handlers[h].name] = handlers[h].stream
           /\ handlers'[h].streamProcess = handlers[h].stream
           /\ handlers'[h].pc = "publishing"

\* Every new session belongs to the call of some handler.
C3_SpawnedByACall ==
    \A s \in SessionIds :
        (~sp[s].born /\ sp'[s].born) =>
            \E h \in Conns : handlers[h].pc = "start" /\ handlers'[h].stream = s

\* A call that found no active entry always goes on to spawn.
C3_AlwaysSpawns(h) ==
    (Steps(h) /\ handlers[h].pc \in {"mkdir", "start"}) =>
        handlers'[h].pc \in {"start", "store"}

\* A call that found no active entry goes on to spawn unless the creation
\* fails, and then it registers and spawns nothing.
C3_SpawnsUnlessCreationFails(h) ==
    (Steps(h) /\ handlers[h].pc \in {"mkdir", "start"}) =>
        \/ handlers'[h].pc \in {"start", "store"}
        \/ /\ handlers'[h].pc = "failed"
           /\ handlers'[h].streamProcess = Nil
           /\ streams' = streams /\ sp' = sp

\* C3 as stated: GetOrCreateStream spawns a subprocess if and only if it
\* finds no active entry for the name; an active entry is returned with
\* nothing changed; an inactive entry is removed and a freshly spawned
\* session registered in its place.
C3_SpawnsIffNoActiveEntry ==
    [][ /\ C3_SpawnedByACall
        /\ \A h \in Conns : /\ C3_Load(h) /\ C3_Reuse(h) /\ C3_Evict(h)
                            /\ C3_SpawnAndRegister(h)
                            /\ C3_AlwaysSpawns(h) ]_vars

\* C3, amended: as above, except that a call that finds no active entry
\* spawns and registers a session only if the creation does not fail; when
\* it fails the call returns the error with nothing spawned or registered.
C3_SpawnsIffNoActiveEntryUnlessFailure ==
    [][ /\ C3_SpawnedByACall
        /\ \A h \in Conns : /\ C3_Load(h) /\ C3_Reuse(h) /\ C3_Evict(h)
                            /\ C3_SpawnAndRegister(h)
                            /\ C3_SpawnsUnlessCreationFails(h) ]_vars

\* A session of a name is inactive, a later session of the name is
\* registered and active, and two connections hold that later session: one
\* call created it, the other found it active and was handed the same one.
C3_Witness ==
    \E s, t \in SessionIds, h, g \in Conns :
        /\ s # t /\ h # g
        /\ sp[s].born /\ sp[t].born /\ sp[s].username = sp[t].username
        /\ ~sp[s].active /\ sp[t].active /\ streams[sp[t].username] = t
        /\ handlers[h].pc = "publishing" /\ handlers[h].streamProcess = t
        /\ handlers[g].pc = "publishing" /\ handlers[g].streamProcess = t

\* C4: a GetOrCreateStream call that returned an error left nothing behind:
\* no session of its own, and no output directory for a username that has
\* no session at all.
C4_FailureLeavesNothing ==
    \A h \in Conns :
        handlers[h].pc = "failed" =>
            /\ handlers[h].stream = Nil
            /\ handlers[h].streamProcess = Nil
            /\ (handlers[h].name \in dirs => SessionsOf(handlers[h].name) # {})

\* C5: when the subprocess of a session has exited by itself (no Stop has
\* torn the session down), eventually the session's flag is false and
\* GetActiveStreams does not list its username on account of it.
C5_OrganicExitDropsIdentity ==
    \A s \in SessionIds :
        (sp[s].proc = "exited" /\ sp[s].teardowns = 0)
        ~> ( /\ sp[s].born /\ ~sp[s].active
             /\ (streams[sp[s].username] = s => sp[s].username \notin GetActiveStreams) )

\* A subprocess exited by itself, no Stop ran, and the monitor has finished.
C5_Witness ==
    \E s \in SessionIds :
        /\ sp[s].proc = "exited" /\ sp[s].teardowns = 0 /\ ~sp[s].cancelled
        /\ sp[s].mon = "done" /\ ~sp[s].active
        /\ sp[s].username \notin GetActiveStreams

\* C6: once the subprocess of a session has exited and its monitor goroutine
\* has finished, the registry holds no entry that refers to the session.
C6_NoEntryAfterMonitor ==
    \A s \in SessionIds :
        (sp[s].born /\ sp[s].mon = "done") => streams[sp[s].username] # s

\* C7: whatever the number of Stop calls on a session, its teardown runs at
\* most once and only in the call that flipped the flag: one close of the
\* sink, at most one forced kill, one scheduled removal of the directory
\* (exactly one of each once that call has returned), and the directory
\* removal runs at most once.
C7_TeardownRunsOnce ==
    \A s \in SessionIds :
        /\ sp[s].teardowns <= 1
        /\ Cardinality(TearingDown(s)) <= 1
        /\ sp[s].stdinCloses <= 1 /\ sp[s].kills <= 1
        /\ sp[s].rmScheduled <= 1 /\ sp[s].rmDone <= 1
        /\ (TearingDown(s) # {}) => (sp[s].teardowns = 1 /\ ~sp[s].active)
        /\ (sp[s].teardowns = 1 /\ TearingDown(s) = {}) =>
               (sp[s].stdinCloses = 1 /\ sp[s].rmScheduled = 1)
        /\ (sp[s].teardowns = 0) =>
               (sp[s].stdinCloses = 0 /\ sp[s].kills = 0 /\ sp[s].rmScheduled = 0)

\* Two Stop calls on one session at the same time: one has flipped the flag
\* and is tearing down, the other is about to Swap.
C7_Witness ==
    \E h, g \in Conns :
        /\ h # g
        /\ handlers[h].streamProcess = handlers[g].streamProcess
        /\ handlers[h].timer = "swap"
        /\ handlers[g].timer \in {"close", "cancel", "select"}

\* C8: a session that Stop has torn down ends terminated: subprocess exited
\* and reaped, input pipe closed, flag false, registry not mapping the
\* username to it.  Stated on the states where the session's own goroutines
\* have nothing left to do: the Stop call has returned, the subprocess is
\* reaped, and the monitor has finished or is blocked in a Wait that will
\* not return.
C8_StoppedSessionIsTerminated ==
    \A s \in SessionIds :
        ( /\ sp[s].teardowns > 0 /\ ~InTeardown(s)
          /\ sp[s].proc = "exited" /\ sp[s].reaped
          /\ sp[s].mon \in {"wait", "done"} )
        => Terminated(s)

\* C9: a session that has terminated (monitor finished, flag false for good)
\* with no Stop teardown still running has had the removal of its output
\* directory scheduled.  The flag never becomes true again, so no later Stop
\* can schedule it: a state that violates this is one from which the removal
\* is never scheduled.
C9_TerminatedHasRemovalScheduled ==
    \A s \in SessionIds :
        (sp[s].born /\ sp[s].mon = "done" /\ ~sp[s].active /\ ~InTeardown(s))
        => sp[s].rmScheduled > 0

\* C10: a publish that arrives while a closed connection's reconnect delay is
\* still running for an active session of the same name reuses that session:
\* as long as that delay has not expired and the session is still active,
\* the publish starts no new subprocess.
C10_ReconnectInGraceReuses ==
    [][ \A h \in Conns :
          (handlers[h].pc = "start" /\ handlers'[h].pc = "store")
          => handlers[h].inGrace \cap InGrace(handlers[h].name) = {} ]_vars

----------------------------------------------------------------------------
(***************************************************************************)
(* GraceSpec: the connections of one name come and go as in ServeSpec, and *)
(* hist records which publish arrived during which reconnect delay and     *)
(* which sessions existed when a Stop returned.  It follows the runs in    *)
(* which no subprocess ends by itself, and leaves the removal of the       *)
(* output directories aside.                                               *)
(***************************************************************************)

GraceInit ==
    /\ listing = NoListing
    /\ streams = [u \in Users |-> Nil]
    /\ sp = [s \in SessionIds |-> Unborn]
    /\ dirs = {}
    /\ handlers = [h \in Conns |-> Connected]
    /\ served = 0
    /\ hist = [NoHist EXCEPT !.on = TRUE]
    /\ flv = NoFlv
    /\ tag = NoTag
    /\ auth = NoAuth

GraceNext ==
    \/ \E h \in Conns : OnServe(h)
    \/ \E h \in Conns, u \in Reconnecting : OnPublish(h, u)
    \/ \E h \in Conns : CheckActive(h)
    \/ \E h \in Conns : DeleteInactive(h)
    \/ \E h \in Conns : MkdirAll(h)
    \/ \E h \in Conns : StartProcess(h)
    \/ \E h \in Conns : StoreStream(h)
    \/ \E h \in Conns : OnClose(h)
    \/ \E h \in Conns : ReconnectTimer(h)
    \/ \E h \in Conns : StopSwap(h)
    \/ \E h \in Conns : StopCloseStdin(h)
    \/ \E h \in Conns : StopCancel(h)
    \/ \E s \in SessionIds : StopWaitCall(s)
    \/ \E s \in SessionIds : StopWaitReturn(s)
    \/ \E h \in Conns : StopWaitDone(h)
    \/ \E h \in Conns : StopTimeout(h)
    \/ \E s \in SessionIds : ProcKilled(s)
    \/ \E s \in SessionIds : MonitorWait(s)
    \/ \E s \in SessionIds : MonitorStore(s)
    \/ \E s \in SessionIds : MonitorDelete(s)

GraceSpec == GraceInit /\ [][GraceNext]_vars

\* RemovalSpec: MaxConns connections of one name with the history kept and
\* the removal of the output directories followed; no connection is
\* replaced and no subprocess ends by itself.
RemovalNext ==
    \/ \E h \in Conns, u \in Reconnecting : OnPublish(h, u)
    \/ \E h \in Conns : CheckActive(h)
    \/ \E h \in Conns : DeleteInactive(h)
    \/ \E h \in Conns : MkdirAll(h)
    \/ \E h \in Conns : StartProcess(h)
    \/ \E h \in Conns : StoreStream(h)
    \/ \E h \in Conns : OnClose(h)
    \/ \E h \in Conns : ReconnectTimer(h)
    \/ \E h \in Conns : StopSwap(h)
    \/ \E h \in Conns : StopCloseStdin(h)
    \/ \E h \in Conns : StopCancel(h)
    \/ \E s \in SessionIds : StopWaitCall(s)
    \/ \E s \in SessionIds : StopWaitReturn(s)
    \/ \E h \in Conns : StopWaitDone(h)
    \/ \E h \in Conns : StopTimeout(h)
    \/ \E s \in SessionIds : RemoveAll(s)
    \/ \E s \in SessionIds : ProcKilled(s)
    \/ \E s \in SessionIds : MonitorWait(s)
    \/ \E s \in SessionIds : MonitorStore(s)
    \/ \E s \in SessionIds : MonitorDelete(s)

RemovalSpec == GraceInit /\ [][RemovalNext]_vars

\* C11: a publish that arrives after the Stop started by an expired
\* reconnect delay has torn a session of its name down is handed a session
\* created after that teardown: never one that already existed when the
\* Stop returned.  (A publish whose creation fails is handed none.)
C11_PublishAfterTeardownCreates ==
    [][ \A h \in Conns :
          (handlers[h].pc \in {"check", "store"} /\ handlers'[h].pc = "publishing")
          => handlers'[h].streamProcess \notin hist.old[h] ]_vars

\* C12: the Stop of an expired reconnect delay never flips the flag of a
\* session that a connection which published during that delay was handed
\* and is still publishing to.
C12_StaleTimerSparesRepublished ==
    [][ \A g \in Conns :
          (handlers[g].timer = "swap" /\ handlers'[g].timer = "close")
          => ~ \E h \in Conns :
                 /\ handlers[h].pc = "publishing"
                 /\ handlers[h].streamProcess = handlers[g].streamProcess
                 /\ g \in hist.rejoined[h] ]_vars

\* C13: the directory removal scheduled by the teardown of a session never
\* removes the output directory while a later session of the same username
\* is live: one created, after that teardown (after its Stop returned), by a
\* publish that arrived after it and is still connected.
C13_RemovalSparesLaterSession ==
    [][ \A s, t \in SessionIds :
          ( /\ sp[s].born /\ Live(t) /\ t \notin hist.prior[s]
            /\ sp[s].username = sp[t].username
            /\ \E h \in Conns : /\ handlers[h].pc = "publishing"
                                /\ handlers[h].streamProcess = t
                                /\ s \in hist.old[h]
            /\ sp'[s].rmDone > sp[s].rmDone )
          => sp[s].username \in dirs' ]_vars

----------------------------------------------------------------------------
(***************************************************************************)
(* The frame callbacks of a connection and its flv.Writer.  OnPublish      *)
(* builds one Writer per connection over the stdin pipe of the session it  *)
(* was handed; the callbacks of one connection run one after the other.    *)
(* A Write to the pipe is one entry of flv.sink: the connection whose      *)
(* Writer made it, the frame it belongs to, the tag type and which of the  *)
(* Writes of the tag it is.  pc of a Writer:                               *)
(*   idle -> once -> header -> data -> trailer -> idle                     *)
(***************************************************************************)

\* Frames delivered to one connection.
MaxFrames == 2

\* Tag types: WriteAudio, WriteVideo, WriteScript.
TagAudio == 8

TagVideo == 9

TagScript == 18

\* A write to the pipe succeeds while the pipe is open and ffmpeg reads it.
PipeOpen(s) == sp[s].stdinOpen /\ sp[s].proc = "running"

\* w.writer.Write(...) on the stdin of session s: the bytes reach the pipe
\* in one piece, or the call returns an error and nothing is added.
Write(s, c) == IF PipeOpen(s) THEN [flv EXCEPT !.sink[s] = Append(@, c)] ELSE flv

\* The write of the 13-byte file header by connection h.
FileHeader(h) == [w |-> h, n |-> 0, k |-> 0, part |-> "flv"]

\* One of the three writes of the tag of the frame connection h is handling.
TagPart(h, part) ==
    LET fs == flv.writer[h].frames
    IN  [w |-> h, n |-> Len(fs), k |-> fs[Len(fs)], part |-> part]

\* A frame callback finds h.flvWriter set once OnPublish returned a stream.
Attached(h) == handlers[h].pc = "publishing" /\ handlers[h].streamProcess # Nil

\* A callback of connection h may run: the previous one returned, and the
\* connection has frames left to deliver.
CanDeliver(h) ==
    /\ Attached(h)
    /\ flv.writer[h].pc = "idle"
    /\ Len(flv.writer[h].frames) < MaxFrames

\* The callback got the payload of a frame of tag type k and calls
\* WriteAudio/WriteVideo/WriteScript, which starts with WriteHeader().
Deliver(h, k) ==
    [flv EXCEPT !.writer[h].frames = Append(@, k), !.writer[h].pc = "once"]

\* io.ReadAll(payload) failed: the callback returns the error.
ReadFails(h, k) ==
    [flv EXCEPT !.writer[h].frames = Append(@, k),
                !.writer[h].failed = @ \cup {Len(flv.writer[h].frames) + 1}]

OnAudio(h) ==
    /\ CanDeliver(h)
    /\ flv' \in {Deliver(h, TagAudio), ReadFails(h, TagAudio)}
    /\ UNCHANGED <<streams, sp, dirs, handlers, served, hist, tag, auth, listing>>

OnVideo(h) ==
    /\ CanDeliver(h)
    /\ flv' \in {Deliver(h, TagVideo), ReadFails(h, TagVideo)}
    /\ UNCHANGED <<streams, sp, dirs, handlers, served, hist, tag, auth, listing>>

\* data.Payload is already in memory.
OnSetDataFrame(h) ==
    /\ CanDeliver(h)
    /\ flv' = Deliver(h, TagScript)
    /\ UNCHANGED <<streams, sp, dirs, handlers, served, hist, tag, auth, listing>>

\* WriteHeader: headerOnce.Do writes the file header the first time this
\* Writer is used; the result of the Write is dropped.
WriteHeader(h) ==
    /\ flv.writer[h].pc = "once"
    /\ flv' = [(IF flv.writer[h].headerOnce
                  THEN flv
                  ELSE Write(handlers[h].streamProcess, FileHeader(h)))
                 EXCEPT !.writer[h].headerOnce = TRUE, !.writer[h].pc = "header"]
    /\ UNCHANGED <<streams, sp, dirs, handlers, served, hist, tag, auth, listing>>

\* WriteTagStep going on to the next Write after a failed one.
WriteTagStep_GoesOn(h, part, to) ==
    [Write(handlers[h].streamProcess, TagPart(h, part)) EXCEPT !.writer[h].pc = to]

\* One Write of WriteTag, made under the Writer's own mutex: on success the
\* call goes on to the next Write (or returns nil after the last), on
\* failure WriteTag returns the error.
WriteTagStep(h, part, to) ==
    IF PipeOpen(handlers[h].streamProcess)
      THEN [Write(handlers[h].streamProcess, TagPart(h, part)) EXCEPT !.writer[h].pc = to]
      ELSE [flv EXCEPT !.writer[h].pc = "idle",
                       !.writer[h].failed = @ \cup {Len(flv.writer[h].frames)}]

\* w.writer.Write(tagHeader)
WriteTagHeader(h) ==
    /\ flv.writer[h].pc = "header"
    /\ flv' = WriteTagStep(h, "header", "data")
    /\ UNCHANGED <<streams, sp, dirs, handlers, served, hist, tag, auth, listing>>

\* WriteTag going on to the trailer without writing the payload.
WriteTagData_Skipped(h) ==
    /\ flv.writer[h].pc = "data"
    /\ flv' = [flv EXCEPT !.writer[h].pc = "trailer"]
    /\ UNCHANGED <<streams, sp, dirs, handlers, served, hist, tag, auth, listing>>

\* w.writer.Write(data)
WriteTagData(h) ==
    /\ flv.writer[h].pc = "data"
    /\ flv' = WriteTagStep(h, "data", "trailer")
    /\ UNCHANGED <<streams, sp, dirs, handlers, served, hist, tag, auth, listing>>

\* w.writer.Write(prevTagSize)
WriteTagTrailer(h) ==
    /\ flv.writer[h].pc = "trailer"
    /\ flv' = WriteTagStep(h, "trailer", "idle")
    /\ UNCHANGED <<streams, sp, dirs, handlers, served, hist, tag, auth, listing>>

\* Connections publish one name, are handed its session, and deliver frames
\* while ffmpeg runs or after it exited.
MuxNext ==
    \/ \E h \in Conns : \E u \in Reconnecting : OnPublish(h, u)
    \/ \E h \in Conns : CheckActive(h)
    \/ \E h \in Conns : MkdirAll(h)
    \/ \E h \in Conns : StartProcess(h)
    \/ \E h \in Conns : StoreStream(h)
    \/ \E s \in SessionIds : ProcExit(s)
    \/ \E h \in Conns : OnAudio(h)
    \/ \E h \in Conns : OnVideo(h)
    \/ \E h \in Conns : OnSetDataFrame(h)
    \/ \E h \in Conns : WriteHeader(h)
    \/ \E h \in Conns : WriteTagHeader(h)
    \/ \E h \in Conns : WriteTagData(h)
    \/ \E h \in Conns : WriteTagTrailer(h)

MuxSpec == Init /\ [][MuxNext]_vars

\* C14: the 13-byte file header is written to the input sink of a session
\* exactly once and before any tag, however many connections feed the session:
\* a sink holds at most one file header, and a sink that holds anything
\* starts with it.
C14_HeaderOncePerSink ==
    \A s \in SessionIds :
        LET q == flv.sink[s]
        IN  /\ Cardinality({i \in DOMAIN q : q[i].part = "flv"}) <= 1
            /\ q # <<>> => q[1].part = "flv"

\* The writes of tags among the writes in q, file headers left out.
Tags(q) == SelectSeq(q, LAMBDA c : c.part # "flv")

\* The tags in q are whole tags laid end to end, the last one possibly
\* still being written: a payload follows the header of its own tag, a
\* trailer the payload of its own tag, and a tag header comes first or after
\* the trailer of the tag before it.
WholeTags(q) ==
    \A i \in DOMAIN q :
        /\ q[i].part = "data" =>
             i > 1 /\ q[i-1] = [q[i] EXCEPT !.part = "header"]
        /\ q[i].part = "trailer" =>
             i > 1 /\ q[i-1] = [q[i] EXCEPT !.part = "data"]
        /\ q[i].part = "header" =>
             i = 1 \/ q[i-1].part = "trailer"

\* C15: under concurrent audio, video and metadata writes the byte stream
\* of a sink is a sequence of whole tags; the bytes of one tag are never
\* interleaved with the bytes of another.
C15_TagsNeverInterleaved == \A s \in SessionIds : WholeTags(Tags(flv.sink[s]))

\* The writes connection h made to the sink of its session, in sink order.
TagsOf(h) ==
    SelectSeq(Tags(flv.sink[handlers[h].streamProcess]), LAMBDA c : c.w = h)

\* Position of a write in the stream one connection produces when every
\* frame becomes one tag in delivery order.
Rank(c) == 3 * c.n + CASE c.part = "header" -> 0 [] c.part = "data" -> 1 [] OTHER -> 2

\* The callback of frame n of connection h returned nil.
Returned(h, n) ==
    /\ n \in DOMAIN flv.writer[h].frames
    /\ n \notin flv.writer[h].failed
    /\ n < Len(flv.writer[h].frames) \/ flv.writer[h].pc = "idle"

\* C18: for one connection the tags written to the sink of its session appear
\* in exactly the order in which its frames were delivered, one tag per frame,
\* with no reordering across audio, video and metadata and no batching: the
\* connection's writes are those of its frames' tags with the frames' types,
\* in strictly increasing position, and every frame whose callback returned
\* without error has its whole tag in the sink.
C18_TagsInDeliveryOrder ==
    \A h \in Conns :
        handlers[h].streamProcess # Nil =>
            LET q == TagsOf(h)
            IN  /\ \A i \in DOMAIN q :
                      /\ q[i].n \in DOMAIN flv.writer[h].frames
                      /\ q[i].k = flv.writer[h].frames[q[i].n]
                /\ \A i, j \in DOMAIN q : i < j => Rank(q[i]) < Rank(q[j])
                /\ \A i \in DOMAIN q :
                      q[i].part # "header" => i > 1 /\ Rank(q[i-1]) = Rank(q[i]) - 1
                /\ \A n \in DOMAIN flv.writer[h].frames :
                      Returned(h, n) =>
                          \A part \in {"header", "data", "trailer"} :
                              \E i \in DOMAIN q : q[i].n = n /\ q[i].part = part

\* A connection delivered MaxFrames frames of different types without error
\* into a sink another connection wrote tags to as well.
C18_Witness ==
    \E h \in Conns :
        /\ handlers[h].streamProcess # Nil
        /\ Len(flv.writer[h].frames) = MaxFrames
        /\ flv.writer[h].frames[1] # flv.writer[h].frames[MaxFrames]
        /\ flv.writer[h].failed = {}
        /\ flv.writer[h].pc = "idle"
        /\ Len(TagsOf(h)) = 3 * MaxFrames
        /\ \E g \in Conns \ {h} :
              /\ handlers[g].streamProcess = handlers[h].streamProcess
              /\ TagsOf(g) # <<>>

----------------------------------------------------------------------------
(***************************************************************************)
(* Writer.WriteTag as a function of its arguments, on a writer that takes  *)
(* every byte (a buffer).  A uint32 timestamp is its two 16-bit halves     *)
(* (hi, lo), the value being hi * 65536 + lo.  A payload is len bytes of   *)
(* value fill; the lengths drawn are below 2^31, where uint32(len(data))   *)
(* and dataSize + 11 do not wrap.  What was written is the sequence of the *)
(* three Writes: the header bytes, the payload, the trailer bytes.         *)
(***************************************************************************)

\* First length that does not fit the 3-byte field.
Limit24 == 256 * 256 * 256

Kinds == {TagAudio, TagVideo, TagScript}

Timestamps == [hi : {0, 1, 255, 256, 4660, 65535}, lo : {0, 1, 256, 12345, 65535}]

Payloads ==
    [len : {0, 1, 2, 255, 256, 65535, 65536, Limit24 - 1, Limit24,
            Limit24 + 1, 2 * Limit24 + 5},
     fill : {0, 171}]

\* byte(x): the low 8 bits.
Byte(x) == x % 256

\* The header with header[7], the extension byte, left at zero.
makeFLVTagHeader_NoExtension(tagType, dataSize, timestamp) ==
    << tagType,
       Byte(dataSize \div 65536), Byte(dataSize \div 256), Byte(dataSize),
       Byte(timestamp.hi), Byte(timestamp.lo \div 256), Byte(timestamp.lo),
       0, 0, 0, 0 >>

\* makeFLVTagHeader: header[0] is the type, header[1..3] byte(dataSize>>16),
\* byte(dataSize>>8), byte(dataSize), header[4..6] byte(timestamp>>16),
\* byte(timestamp>>8), byte(timestamp), header[7] byte(timestamp>>24),
\* header[8..10] zero.
makeFLVTagHeader(tagType, dataSize, timestamp) ==
    << tagType,
       Byte(dataSize \div 65536), Byte(dataSize \div 256), Byte(dataSize),
       Byte(timestamp.hi), Byte(timestamp.lo \div 256), Byte(timestamp.lo),
       Byte(timestamp.hi \div 256), 0, 0, 0 >>

\* binary.BigEndian.PutUint32
PutUint32(v) ==
    << Byte(v \div Limit24), Byte(v \div 65536), Byte(v \div 256), Byte(v) >>

\* The call is made with arguments drawn from the sets above.
TagInit ==
    /\ listing = NoListing
    /\ streams = [u \in Users |-> Nil]
    /\ sp = [s \in SessionIds |-> Unborn]
    /\ dirs = {}
    /\ handlers = [h \in Conns |-> Connected]
    /\ served = 0
    /\ hist = NoHist
    /\ flv = NoFlv
    /\ auth = NoAuth
    /\ tag \in [tagType : Kinds, timestamp : Timestamps, data : Payloads,
                called : {FALSE}, out : {<<>>}, err : {FALSE}]

\* WriteTag: dataSize := uint32(len(data)); Write(tagHeader); Write(data);
\* Write(prevTagSize) with prevTagSize = dataSize + 11; no Write fails, so
\* the call returns nil.
WriteTag ==
    /\ ~tag.called
    /\ tag' = [tag EXCEPT
                 !.called = TRUE,
                 !.out = << makeFLVTagHeader(tag.tagType, tag.data.len, tag.timestamp),
                            tag.data,
                            PutUint32(tag.data.len + 11) >>,
                 !.err = FALSE]
    /\ UNCHANGED <<streams, sp, dirs, handlers, served, hist, flv, auth, listing>>

TagNext == WriteTag

TagSpec == TagInit /\ [][TagNext]_vars

\* Big-endian value of the bytes b.
BigEndian(b) ==
    LET RECURSIVE val(_)
        val(i) == IF i = 0 THEN 0 ELSE 256 * val(i - 1) + b[i]
    IN  val(Len(b))

\* What a reader of the written bytes recovers: the type, the timestamp
\* from its low 24 bits and its extension byte, and as payload the bytes
\* that follow the header, as many as the length field says.
Decode(out) ==
    [tagType   |-> out[1][1],
     timestamp |-> [hi |-> 256 * out[1][8] + out[1][5],
                    lo |-> 256 * out[1][6] + out[1][7]],
     data      |-> [out[2] EXCEPT !.len = BigEndian(SubSeq(out[1], 2, 4))]]

\* C16: for every kind in {8, 9, 18}, every 32-bit timestamp and every
\* payload of a length N that fits in 24 bits, WriteTag produces an 11-byte
\* header (kind, 3-byte big-endian N, low 24 timestamp bits, extension byte
\* with timestamp bits 24-31, three zero bytes), then the payload verbatim,
\* then a 4-byte big-endian trailer equal to 11 + N, so that decoding
\* recovers the identical kind, timestamp and payload.
C16_MuxerRoundTrip ==
    (tag.called /\ tag.data.len < Limit24) =>
        /\ ~tag.err
        /\ Len(tag.out) = 3
        /\ Len(tag.out[1]) = 11
        /\ tag.out[1][1] = tag.tagType
        /\ BigEndian(SubSeq(tag.out[1], 2, 4)) = tag.data.len
        /\ BigEndian(SubSeq(tag.out[1], 5, 7)) = 65536 * (tag.timestamp.hi % 256) + tag.timestamp.lo
        /\ tag.out[1][8] = tag.timestamp.hi \div 256
        /\ SubSeq(tag.out[1], 9, 11) = <<0, 0, 0>>
        /\ \A i \in 1..11 : tag.out[1][i] \in 0..255
        /\ tag.out[2] = tag.data
        /\ Len(tag.out[3]) = 4
        /\ \A i \in 1..4 : tag.out[3][i] \in 0..255
        /\ BigEndian(tag.out[3]) = 11 + tag.data.len
        /\ Decode(tag.out) = [tagType |-> tag.tagType, timestamp |-> tag.timestamp,
                              data |-> tag.data]

\* A video tag with the largest payload that fits and a timestamp with bits
\* above the low 24 was written.
C16_Witness ==
    /\ tag.called
    /\ tag.tagType = TagVideo
    /\ tag.data.len = Limit24 - 1
    /\ tag.timestamp.hi >= 256
    /\ tag.timestamp.lo = 12345

\* C17: WriteTag with a payload whose length does not fit in 24 bits
\* returns an error and never emits a tag whose 3-byte length field is a
\* truncation of the real payload length.
C17_OversizePayloadRejected ==
    (tag.called /\ tag.data.len >= Limit24) =>
        /\ tag.err
        /\ tag.out # <<>> => BigEndian(SubSeq(tag.out[1], 2, 4)) = tag.data.len

----------------------------------------------------------------------------
(***************************************************************************)
(* The Authorizer.  A string is the sequence of its characters.  The       *)
(* targets are built of the characters below, none of which is a hex       *)
(* digit, '?', '#', '@', '[' or a control character, so that of url.Parse  *)
(* the steps that apply are the scheme, the authority and the unescaping   *)
(* of the path, in which every '%' is an invalid escape.                   *)
(***************************************************************************)

\* Longest path of a target, in characters.
MaxPathLen == 5

\* Most patterns an Authorizer is configured with.
MaxPatterns == 2

\* Words: each stands for the run of its letters, and none starts with two
\* hex digits.
Words == {"live", "other", "alice", "bob", "username"}

\* ASCII letters, and runs of them, among the symbols used.
Letters == {"r", "s", "h", "g", "x", "y", "v", "w"} \cup Words

\* [a-zA-Z0-9_] among the characters used.
NameChars == Letters

MinOf(S) == CHOOSE i \in S : \A j \in S : i <= j

MaxOf(S) == CHOOSE i \in S : \A j \in S : i >= j

\* s[i..], the rest of s from position i.
From(s, i) == SubSeq(s, i, Len(s))

\* strings.HasPrefix
HasPrefix(s, p) == Len(s) >= Len(p) /\ SubSeq(s, 1, Len(p)) = p

\* url.getScheme: letters up to a ':' are the scheme; a ':' in first place
\* is an error; any other character before a ':' means there is no scheme.
getScheme(rawURL) ==
    LET others == {i \in DOMAIN rawURL : rawURL[i] \notin Letters}
        i == MinOf(others)
    IN  IF others = {} \/ rawURL[i] # ":"
          THEN [err |-> FALSE, scheme |-> <<>>, rest |-> rawURL]
          ELSE IF i = 1
                 THEN [err |-> TRUE, scheme |-> <<>>, rest |-> <<>>]
                 ELSE [err |-> FALSE, scheme |-> SubSeq(rawURL, 1, i - 1),
                       rest |-> From(rawURL, i + 1)]

\* unescape: a '%' that two hex digits do not follow is an error, in a host
\* as in a path; a host holds no '/'.
EscapeError(s) == \E i \in DOMAIN s : s[i] = "%"

\* url.Parse, as far as the path goes: after the scheme, a rest that does
\* not start with '/' is opaque under a scheme (empty Path); a rest that
\* starts with "//" (but, without scheme, not with "///") gives up its
\* authority, up to the next '/'; what is left is unescaped into Path.
Parse(rawURL) ==
    LET sch == getScheme(rawURL)
        remain == sch.rest
        hasAuthority == /\ sch.scheme # <<>> \/ ~HasPrefix(remain, <<"/", "/", "/">>)
                        /\ HasPrefix(remain, <<"/", "/">>)
        after == From(remain, 3)
        slashes == {i \in DOMAIN after : after[i] = "/"}
        authority == IF slashes = {} THEN after ELSE SubSeq(after, 1, MinOf(slashes) - 1)
        path == IF ~hasAuthority THEN remain
                ELSE IF slashes = {} THEN <<>> ELSE From(after, MinOf(slashes))
    IN  IF sch.err
          THEN [err |-> TRUE, Path |-> <<>>]
          ELSE IF ~HasPrefix(remain, <<"/">>) /\ sch.scheme # <<>>
                 THEN [err |-> FALSE, Path |-> <<>>]
                 ELSE IF (hasAuthority /\ EscapeError(authority)) \/ EscapeError(path)
                        THEN [err |-> TRUE, Path |-> <<>>]
                        ELSE [err |-> FALSE, Path |-> path]

\* extractPathFromTCURL: the Path of the parsed target, or the target
\* itself when url.Parse fails.
extractPathFromTCURL(tcurl) ==
    IF Parse(tcurl).err THEN tcurl ELSE Parse(tcurl).Path

\* The characters regexp.QuoteMeta escapes.
Meta == {"\\", ".", "+", "*", "?", "(", ")", "|", "[", "]", "{", "}", "^", "$"}

\* regexp.QuoteMeta: a backslash before every metacharacter.
RECURSIVE QuoteMeta(_)
QuoteMeta(s) ==
    IF s = <<>> THEN <<>>
    ELSE (IF s[1] \in Meta THEN <<"\\", s[1]>> ELSE <<s[1]>>) \o QuoteMeta(Tail(s))

\* The text (?P<name>[^/]+) as one element of a regular expression.
Group(name) == <<"(?P<">> \o name \o <<">[^/]+)">>

\* ReplaceAllStringFunc of \\{([a-zA-Z0-9_]+)\\}: from the left, each
\* backslash, '{', one or more name characters, backslash, '}' of the text
\* becomes the group of that name; every other character stays.  The result
\* is a sequence of elements, a character or a group each.
RECURSIVE ReplaceAll(_)
ReplaceAll(s) ==
    IF s = <<>> THEN <<>>
    ELSE LET others == {i \in 3..Len(s) : s[i] \notin NameChars}
             j == MinOf(others)
         IN  IF /\ HasPrefix(s, <<"\\", "{">>)
                /\ others # {}
                /\ j > 3
                /\ HasPrefix(From(s, j), <<"\\", "}">>)
               THEN <<Group(SubSeq(s, 3, j - 1))>> \o ReplaceAll(From(s, j + 2))
               ELSE <<<<s[1]>>>> \o ReplaceAll(From(s, 2))

\* patternToRegex without the call of QuoteMeta.
patternToRegex_NoQuoteMeta(pattern) ==
    <<<<"^">>>> \o ReplaceAll(pattern) \o <<<<"$">>>>

\* patternToRegex: the pattern is escaped, its escaped placeholders are
\* replaced by named groups, and the whole is anchored: "^" + ... + "$".
patternToRegex(pattern) ==
    <<<<"^">>>> \o ReplaceAll(QuoteMeta(pattern)) \o <<<<"$">>>>

\* What the regexp package makes of the elements between the anchors: a
\* backslash makes the next character a literal, '.' stands for any
\* character, a group is a group, and any other character is itself.
RECURSIVE Parsed(_)
Parsed(r) ==
    IF r = <<>> THEN <<>>
    ELSE IF r[1] = <<"\\">> /\ Len(r) > 1
           THEN <<[kind |-> "literal", v |-> r[2]]>> \o Parsed(From(r, 3))
           ELSE IF r[1][1] = "(?P<"
                  THEN <<[kind |-> "group", v |-> SubSeq(r[1], 2, Len(r[1]) - 1)]>>
                         \o Parsed(Tail(r))
                  ELSE <<[kind |-> IF r[1] = <<".">> THEN "any" ELSE "literal",
                          v |-> r[1]]>> \o Parsed(Tail(r))

\* regexp.Compile(regexStr), of an expression anchored at both ends.
Compile(regexStr) == Parsed(SubSeq(regexStr, 2, Len(regexStr) - 1))

\* regex.SubexpNames() without its entry 0: the names of the groups.
SubexpNames(regex) ==
    LET groups == SelectSeq(regex, LAMBDA e : e.kind = "group")
    IN  [i \in DOMAIN groups |-> groups[i].v]

\* regexp.Compile(regexStr) succeeds.  The expressions patternToRegex
\* builds are well formed; what the library does with a group name used
\* twice is taken from dupOk.
Compiles(regex, dupOk) ==
    \/ dupOk
    \/ \A i, j \in DOMAIN SubexpNames(regex) :
          SubexpNames(regex)[i] = SubexpNames(regex)[j] => i = j

\* regex.FindStringSubmatch on ^regex$: the elements of regex from i on
\* against s from j on.  A group takes one or more characters other than
\* '/', as many as leave the rest a match.  ok and the text of each group.
RECURSIVE FindStringSubmatch(_, _, _, _)
FindStringSubmatch(regex, i, s, j) ==
    IF i > Len(regex)
      THEN [ok |-> j > Len(s), match |-> <<>>]
      ELSE IF regex[i].kind \in {"literal", "any"}
             THEN IF j <= Len(s) /\ (regex[i].kind = "any" \/ <<s[j]>> = regex[i].v)
                    THEN FindStringSubmatch(regex, i + 1, s, j + 1)
                    ELSE [ok |-> FALSE, match |-> <<>>]
             ELSE LET ends == {k \in j..Len(s) :
                                 /\ \A m \in j..k : s[m] # "/"
                                 /\ FindStringSubmatch(regex, i + 1, s, k + 1).ok}
                  IN  IF ends = {}
                        THEN [ok |-> FALSE, match |-> <<>>]
                        ELSE [ok |-> TRUE,
                              match |-> <<SubSeq(s, j, MaxOf(ends))>> \o
                                        FindStringSubmatch(regex, i + 1, s,
                                                           MaxOf(ends) + 1).match]

\* The map extractVariables builds from a match: each group name to the
\* text of the group (of the last group of that name).
Result(regex, found) ==
    LET names == SubexpNames(regex)
    IN  [n \in {names[i] : i \in DOMAIN names} |->
           found.match[MaxOf({i \in DOMAIN names : names[i] = n})]]

\* extractVariables with regexp.MustCompile in the place of regexp.Compile:
\* an expression that does not compile panics.
extractVariables_MustCompile(regexStr, dupOk, tcurl) ==
    LET regex == Compile(regexStr)
        found == FindStringSubmatch(regex, 1, tcurl, 1)
    IN  IF ~Compiles(regex, dupOk)
          THEN [ok |-> FALSE, vars |-> <<>>, panic |-> TRUE]
          ELSE IF ~found.ok
                 THEN [ok |-> FALSE, vars |-> <<>>, panic |-> FALSE]
                 ELSE [ok |-> TRUE, vars |-> Result(regex, found), panic |-> FALSE]

\* extractVariables: nil, false when the expression does not compile or
\* does not match; else the map of the groups, and true.  No step of it
\* panics: match has an entry for every name of SubexpNames.
extractVariables(regexStr, dupOk, tcurl) ==
    LET regex == Compile(regexStr)
        found == FindStringSubmatch(regex, 1, tcurl, 1)
    IN  IF ~Compiles(regex, dupOk) \/ ~found.ok
          THEN [ok |-> FALSE, vars |-> <<>>, panic |-> FALSE]
          ELSE [ok |-> TRUE, vars |-> Result(regex, found), panic |-> FALSE]

\* The patterns an Authorizer may be configured with: /{v}, /x/{v},
\* /{v}/{w}, /x and /{v}/{v}.
Patterns ==
    { <<"/", "{", "v", "}">>,
      <<"/", "x", "/", "{", "v", "}">>,
      <<"/", "{", "v", "}", "/", "{", "w", "}">>,
      <<"/", "x">>,
      <<"/", "{", "v", "}", "/", "{", "v", "}">> }

PatternLists == UNION {[1..n -> Patterns] : n \in 0..MaxPatterns}

\* Paths: '/' followed by segments of x, y and '%'.
Paths ==
    {p \in UNION {[1..n -> {"/", "x", "y", "%"}] : n \in 1..MaxPathLen} : p[1] = "/"}

\* What stands before the path in a target: nothing (a bare path), or a
\* scheme and a host: r://h, s://g.
Prefixes == { <<>>, <<"r", ":", "/", "/", "h">>, <<"s", ":", "/", "/", "g">> }

\* The target handed to the Authorizer.
Target == auth.prefix \o auth.path

\* NewAuthorizer(patterns), and a target.
AuthInit ==
    /\ listing = NoListing
    /\ streams = [u \in Users |-> Nil]
    /\ sp = [s \in SessionIds |-> Unborn]
    /\ dirs = {}
    /\ handlers = [h \in Conns |-> Connected]
    /\ served = 0
    /\ hist = NoHist
    /\ flv = NoFlv
    /\ tag = NoTag
    /\ auth \in [patterns : PatternLists, prefix : Prefixes, path : Paths,
                 dupOk : BOOLEAN, authDone : {FALSE}, authorized : {FALSE},
                 varsDone : {FALSE}, ok : {FALSE}, vars : {<<>>},
                 panic : {FALSE}, name : {<<>>}, valDone : {FALSE}, err : {"nil"}]

\* The loop of IsAuthorized and ExtractVariables: the result of
\* extractVariables for the first pattern, in the order of the list, for
\* which it is ok (or at which it panics); nil, false when there is none.
FirstMatch(patterns, dupOk, path) ==
    LET r(i) == extractVariables(patternToRegex(patterns[i]), dupOk, path)
        ends == {i \in DOMAIN patterns : r(i).ok \/ r(i).panic}
    IN  IF ends = {}
          THEN [ok |-> FALSE, vars |-> <<>>, panic |-> FALSE]
          ELSE r(MinOf(ends))

\* Authorizer.IsAuthorized(tcurl)
IsAuthorized ==
    /\ ~auth.authDone
    /\ LET r == FirstMatch(auth.patterns, auth.dupOk, extractPathFromTCURL(Target))
       IN  auth' = [auth EXCEPT !.authDone = TRUE, !.authorized = r.ok,
                                !.panic = @ \/ r.panic]
    /\ UNCHANGED <<streams, sp, dirs, handlers, served, hist, flv, tag, listing>>

\* Authorizer.ExtractVariables(tcurl)
ExtractVariables ==
    /\ ~auth.varsDone
    /\ LET r == FirstMatch(auth.patterns, auth.dupOk, extractPathFromTCURL(Target))
       IN  auth' = [auth EXCEPT !.varsDone = TRUE, !.ok = r.ok, !.vars = r.vars,
                                !.panic = @ \/ r.panic]
    /\ UNCHANGED <<streams, sp, dirs, handlers, served, hist, flv, tag, listing>>

AuthNext == IsAuthorized \/ ExtractVariables

AuthSpec == AuthInit /\ [][AuthNext]_vars

\* The patterns of the list, by position, that compile and match path as a
\* whole.
Matching(path) ==
    {i \in DOMAIN auth.patterns :
        /\ Compiles(Compile(patternToRegex(auth.patterns[i])), auth.dupOk)
        /\ FindStringSubmatch(Compile(patternToRegex(auth.patterns[i])), 1, path, 1).ok}

\* C19: for every pattern list and every target, IsAuthorized(target) is
\* true if and only if at least one compiled pattern matches the path
\* component of the target; the result does not depend on the scheme or the
\* host of the target, and a bare path gives the same result as a URL with
\* that path.
C19_AuthorizedIffPathMatches ==
    auth.authDone => (auth.authorized <=> Matching(auth.path) # {})

\* C20: ExtractVariables(target) tries the patterns in configuration order
\* and returns the captures of the first pattern that matches the path of
\* the target, with ok = true; it returns ok = false exactly when
\* IsAuthorized(target) is false.
C20_CapturesOfFirstMatch ==
    auth.varsDone =>
        /\ IF Matching(auth.path) = {}
             THEN ~auth.ok
             ELSE /\ auth.ok
                  /\ auth.vars =
                       extractVariables(
                           patternToRegex(auth.patterns[MinOf(Matching(auth.path))]),
                           auth.dupOk, auth.path).vars
        /\ auth.authDone => (auth.ok <=> auth.authorized)

----------------------------------------------------------------------------
(***************************************************************************)
(* One pattern against one path: the body of the loop of IsAuthorized and  *)
(* ExtractVariables, patternToRegex and then extractVariables.             *)
(***************************************************************************)

\* Longest path matched against a single pattern, in characters.
MaxMatchLen == 4

\* /{v}, /x{v}, /{v}/., /., /{v}{w}, /x, /{, /{}, {v}, /{v}/{v}
MatchPatterns ==
    { <<"/", "{", "v", "}">>,
      <<"/", "x", "{", "v", "}">>,
      <<"/", "{", "v", "}", "/", ".">>,
      <<"/", ".">>,
      <<"/", "{", "v", "}", "{", "w", "}">>,
      <<"/", "x">>,
      <<"/", "{">>,
      <<"/", "{", "}">>,
      <<"{", "v", "}">>,
      <<"/", "{", "v", "}", "/", "{", "v", "}">> }

MatchPaths == UNION {[1..n -> {"/", "x", ".", "{", "}"}] : n \in 0..MaxMatchLen}

MatchInit ==
    /\ listing = NoListing
    /\ streams = [u \in Users |-> Nil]
    /\ sp = [s \in SessionIds |-> Unborn]
    /\ dirs = {}
    /\ handlers = [h \in Conns |-> Connected]
    /\ served = 0
    /\ hist = NoHist
    /\ flv = NoFlv
    /\ tag = NoTag
    /\ auth \in [patterns : {<<p>> : p \in MatchPatterns}, prefix : {<<>>},
                 path : MatchPaths, dupOk : BOOLEAN,
                 authDone : {FALSE}, authorized : {FALSE},
                 varsDone : {FALSE}, ok : {FALSE}, vars : {<<>>},
                 panic : {FALSE}, name : {<<>>}, valDone : {FALSE}, err : {"nil"}]

\* regexStr, varNames := patternToRegex(pattern);
\* vars, ok := extractVariables(regexStr, varNames, path)
TryPattern ==
    /\ ~auth.varsDone
    /\ LET r == extractVariables(patternToRegex(auth.patterns[1]), auth.dupOk, auth.path)
       IN  auth' = [auth EXCEPT !.varsDone = TRUE, !.ok = r.ok, !.vars = r.vars,
                                !.panic = @ \/ r.panic]
    /\ UNCHANGED <<streams, sp, dirs, handlers, served, hist, flv, tag, listing>>

MatchNext == TryPattern

MatchSpec == MatchInit /\ [][MatchNext]_vars

\* The parts of a pattern as its author reads it: {name}, with a name of
\* one or more letters, is a placeholder, every other character a literal.
RECURSIVE Parts(_)
Parts(pattern) ==
    IF pattern = <<>> THEN <<>>
    ELSE LET others == {i \in 2..Len(pattern) : pattern[i] \notin NameChars}
             j == MinOf(others)
         IN  IF pattern[1] = "{" /\ others # {} /\ j > 2 /\ pattern[j] = "}"
               THEN <<"{name}">> \o Parts(From(pattern, j + 1))
               ELSE <<pattern[1]>> \o Parts(From(pattern, 2))

\* s is, from end to end, the literals of parts as they are and, for every
\* placeholder, one or more characters none of which is '/'.
RECURSIVE Fits(_, _)
Fits(parts, s) ==
    IF parts = <<>> THEN s = <<>>
    ELSE IF parts[1] = "{name}"
           THEN \E k \in 1..Len(s) :
                   /\ \A m \in 1..k : s[m] # "/"
                   /\ Fits(Tail(parts), From(s, k + 1))
           ELSE s # <<>> /\ s[1] = parts[1] /\ Fits(Tail(parts), Tail(s))

\* The segments of a path: its longest runs of characters other than '/'.
Segments(s) ==
    {SubSeq(s, ab[1], ab[2]) : ab \in
        {ab \in (DOMAIN s) \X (DOMAIN s) :
            /\ ab[1] <= ab[2]
            /\ \A m \in ab[1]..ab[2] : s[m] # "/"
            /\ ab[1] = 1 \/ s[ab[1] - 1] = "/"
            /\ ab[2] = Len(s) \/ s[ab[2] + 1] = "/"}}

\* The pattern of the Authorizer compiles.
PatternCompiles == Compiles(Compile(patternToRegex(auth.patterns[1])), auth.dupOk)

\* C21 as stated: a compiled pattern matches a path only as a whole, with
\* every literal part verbatim (metacharacters as literals), and each
\* placeholder matches exactly one non-empty path segment with no '/'.
C21_PlaceholderIsOneSegment ==
    (auth.varsDone /\ PatternCompiles) =>
        /\ auth.ok <=> Fits(Parts(auth.patterns[1]), auth.path)
        /\ auth.ok => \A n \in DOMAIN auth.vars : auth.vars[n] \in Segments(auth.path)

\* C21, amended: a compiled pattern matches a path only as a whole, with
\* every literal part verbatim (metacharacters as literals), and each
\* placeholder matches one or more characters none of which is '/', so
\* text inside a single path segment.
C21_MatchesWholePathLiterally ==
    (auth.varsDone /\ PatternCompiles) =>
        /\ auth.ok <=> Fits(Parts(auth.patterns[1]), auth.path)
        /\ auth.ok => \A n \in DOMAIN auth.vars :
                          /\ auth.vars[n] # <<>>
                          /\ \A m \in DOMAIN auth.vars[n] : auth.vars[n][m] # "/"
                          /\ \E seg \in Segments(auth.path) :
                                \E a \in DOMAIN seg :
                                    HasPrefix(From(seg, a), auth.vars[n])

\* The pattern /{v}/. matched a path: a placeholder and a metacharacter.
C21_Witness ==
    /\ auth.varsDone
    /\ auth.ok
    /\ auth.patterns = << <<"/", "{", "v", "}", "/", ".">> >>
    /\ auth.vars[<<"v">>] = <<"x">>

\* The patterns of the list, by position, that compile and match, as a
\* whole, the string the Authorizer extracts from the target.
Accepting ==
    {i \in DOMAIN auth.patterns :
        /\ Compiles(Compile(patternToRegex(auth.patterns[i])), auth.dupOk)
        /\ FindStringSubmatch(Compile(patternToRegex(auth.patterns[i])), 1,
                              extractPathFromTCURL(Target), 1).ok}

\* C22: with an empty pattern list IsAuthorized returns false and
\* ExtractVariables ok = false for every target; a malformed pattern never
\* makes IsAuthorized or ExtractVariables panic, it only fails to match,
\* and the patterns after it in the list are still tried.
C22_MalformedPatternOnlyFails ==
    /\ ~auth.panic
    /\ auth.authDone => (auth.authorized <=> Accepting # {})
    /\ auth.varsDone => (auth.ok <=> Accepting # {})
    /\ auth.patterns = <<>> =>
          /\ auth.authDone => ~auth.authorized
          /\ auth.varsDone => ~auth.ok /\ auth.vars = <<>>

\* Both methods accepted a target through the second pattern of a list
\* whose first pattern does not compile.
C22_Witness ==
    /\ auth.authDone /\ auth.authorized
    /\ auth.varsDone /\ auth.ok
    /\ Len(auth.patterns) = 2
    /\ ~Compiles(Compile(patternToRegex(auth.patterns[1])), auth.dupOk)
    /\ Accepting = {2}

----------------------------------------------------------------------------
(***************************************************************************)
(* ValidateAuthentication as a function of its arguments.                  *)
(***************************************************************************)

\* Keys of the maps: the one ValidateAuthentication looks up, the same in
\* another case, and another capture.
VarKeys == {UsernameKey, <<"Username">>, <<"app">>}

\* Texts of captures and publishing names.
VarTexts == {<<>>, <<"alice">>, <<"Alice">>, <<"bob">>}

VarMaps == UNION {[keys -> VarTexts] : keys \in SUBSET VarKeys}

ValidateInit ==
    /\ listing = NoListing
    /\ streams = [u \in Users |-> Nil]
    /\ sp = [s \in SessionIds |-> Unborn]
    /\ dirs = {}
    /\ handlers = [h \in Conns |-> Connected]
    /\ served = 0
    /\ hist = NoHist
    /\ flv = NoFlv
    /\ tag = NoTag
    /\ auth \in {[NoAuth EXCEPT !.vars = m, !.name = n] : m \in VarMaps, n \in VarTexts}

\* err := a.ValidateAuthentication(vars, publishingName)
Validate ==
    /\ ~auth.valDone
    /\ auth' = [auth EXCEPT !.valDone = TRUE,
                            !.err = ValidateAuthentication(auth.vars, auth.name)]
    /\ UNCHANGED <<streams, sp, dirs, handlers, served, hist, flv, tag, listing>>

ValidateNext == Validate

ValidateSpec == ValidateInit /\ [][ValidateNext]_vars

\* C23: ValidateAuthentication(vars, publishingName) returns an error if
\* and only if publishingName is empty, or vars has the key username with a
\* value that differs from publishingName, compared exactly; with no
\* username key and a non-empty publishingName it succeeds whatever the
\* other captures are.
C23_ErrorIffEmptyOrMismatch ==
    auth.valDone =>
        /\ auth.err # "nil" <=>
              \/ auth.name = <<>>
              \/ \E k \in DOMAIN auth.vars :
                    k = <<"username">> /\ auth.vars[k] # auth.name
        /\ (<<"username">> \notin DOMAIN auth.vars /\ auth.name # <<>>) => auth.err = "nil"

\* A username that differs from the publishing name in case only was
\* refused, beside another capture.
C23_Witness ==
    /\ auth.valDone
    /\ auth.err = "mismatch"
    /\ DOMAIN auth.vars = {<<"username">>, <<"app">>}
    /\ auth.vars[<<"username">>] = <<"Alice">>
    /\ auth.name = <<"alice">>

----------------------------------------------------------------------------
(***************************************************************************)
(* Connections from their connect command on: OnConnect, then OnPublish    *)
(* when OnConnect returned nil, then OnClose.  pc of a handler starts at   *)
(* new; OnConnect takes it to idle or, with an error, to rejected;         *)
(* OnPublish takes it to refused when ValidateAuthentication fails.        *)
(***************************************************************************)

\* cfg.AuthorizedPatterns: /live/{username}, /other
AuthorizedPatterns ==
    << <<"/", "live", "/", "{", "username", "}">>, <<"/", "other">> >>

\* cmd.Command.TCURL: /live/alice, /live/bob, r://h/live/alice, /other,
\* /live, /x/alice
ConnTargets ==
    { <<"/", "live", "/", "alice">>,
      <<"/", "live", "/", "bob">>,
      <<"r", ":", "/", "/", "h", "/", "live", "/", "alice">>,
      <<"/", "other">>,
      <<"/", "live">>,
      <<"/", "x", "/", "alice">> }

\* cmd.Command.App
Apps == {<<"live">>}

\* cmd.PublishingName
Names == Users \cup {""}

ConnInit ==
    /\ listing = NoListing
    /\ streams = [u \in Names |-> Nil]
    /\ sp = [s \in SessionIds |-> Unborn]
    /\ dirs = {}
    /\ handlers = [h \in Conns |-> NewHandler]
    /\ served = 0
    /\ hist = NoHist
    /\ flv = NoFlv
    /\ tag = NoTag
    /\ auth = NoAuth

\* h.authorizer.ExtractVariables(tcurl) and h.authorizer.IsAuthorized(tcurl)
\* of the handler's Authorizer.
Authorize(tcurl) ==
    FirstMatch(AuthorizedPatterns, auth.dupOk, extractPathFromTCURL(tcurl))

\* OnConnect storing the connection information before its two checks.
OnConnect_StoreFirst(h, tcurl, app) ==
    /\ handlers[h].pc = "new"
    /\ handlers' = [handlers EXCEPT
                      ![h].target = tcurl,
                      ![h].connectionInfo = [set |-> TRUE, App |-> app, TCURL |-> tcurl,
                                             Vars |-> Authorize(tcurl).vars],
                      ![h].pc = IF Authorize(tcurl).ok THEN "idle" ELSE "rejected"]
    /\ UNCHANGED <<streams, sp, dirs, served, hist, rest>>

\* OnConnect: an error when ExtractVariables gives ok = false, an error
\* when IsAuthorized gives false; else the connection information is stored
\* and nil returned.
OnConnect(h, tcurl, app) ==
    /\ handlers[h].pc = "new"
    /\ LET extracted == Authorize(tcurl)
           authorized == Authorize(tcurl).ok
       IN  handlers' =
             IF ~extracted.ok
               THEN [handlers EXCEPT ![h].target = tcurl, ![h].pc = "rejected"]
               ELSE IF ~authorized
               THEN [handlers EXCEPT ![h].target = tcurl, ![h].pc = "rejected"]
               ELSE [handlers EXCEPT
                       ![h].target = tcurl,
                       ![h].connectionInfo = [set |-> TRUE, App |-> app, TCURL |-> tcurl,
                                              Vars |-> extracted.vars],
                       ![h].pc = "idle"]
    /\ UNCHANGED <<streams, sp, dirs, served, hist, rest>>

ConnNext ==
    \/ \E h \in Conns : \E tcurl \in ConnTargets : \E app \in Apps : OnConnect(h, tcurl, app)
    \/ \E h \in Conns : \E u \in Names : OnPublish(h, u)
    \/ \E h \in Conns : CheckActive(h)
    \/ \E h \in Conns : MkdirAll(h)
    \/ \E h \in Conns : StartProcess(h)
    \/ \E h \in Conns : StoreStream(h)
    \/ \E h \in Conns : OnClose(h)

ConnSpec == ConnInit /\ [][ConnNext]_vars

\* Some pattern of the configuration matches, as a whole, what the
\* Authorizer extracts from the target.
Authorized(tcurl) ==
    \E i \in DOMAIN AuthorizedPatterns :
        FindStringSubmatch(Compile(patternToRegex(AuthorizedPatterns[i])), 1,
                           extractPathFromTCURL(tcurl), 1).ok

\* C24: OnConnect with a target that matches no configured pattern returns
\* an error and leaves the connection context unset; the context is set
\* (application name, raw target, captured variables) only when the target
\* is authorized, and it is cleared by OnClose.
C24_ContextOnlyWhenAuthorized ==
    [][ \A h \in Conns :
          /\ (handlers[h].pc = "new" /\ handlers'[h].pc # "new") =>
                IF Authorized(handlers'[h].target)
                  THEN /\ handlers'[h].pc = "idle"
                       /\ handlers'[h].connectionInfo.set
                       /\ handlers'[h].connectionInfo.TCURL = handlers'[h].target
                       /\ handlers'[h].connectionInfo.App \in Apps
                       /\ handlers'[h].connectionInfo.Vars = Authorize(handlers'[h].target).vars
                  ELSE /\ handlers'[h].pc = "rejected"
                       /\ handlers'[h].connectionInfo = NoInfo
          /\ handlers'[h].connectionInfo.set =>
                /\ Authorized(handlers'[h].target)
                /\ handlers'[h].pc \notin {"new", "rejected", "closed"}
          /\ handlers'[h].pc = "closed" => handlers'[h].connectionInfo = NoInfo ]_vars

\* One connection was rejected by OnConnect, and another, accepted with a
\* captured username, published and was closed.
C24_Witness ==
    \E h, g \in Conns :
        /\ handlers[h].pc = "rejected"
        /\ handlers[g].pc = "closed"
        /\ handlers[g].streamProcess # Nil
        /\ handlers[g].target = <<"/", "live", "/", "alice">>

\* The publishing name passes ValidateAuthentication against the variables
\* captured for connection h.
Validated(h, u) ==
    ValidateAuthentication(handlers[h].connectionInfo.Vars, Name(u)) = "nil"

\* C25: every OnPublish, a reconnect inside the grace window included,
\* obtains a session from the registry only after ValidateAuthentication
\* succeeded for the connection's captured variables and the publishing
\* name; when it fails OnPublish returns the error and no session is
\* created, reused or attached, and the registry never holds an entry for
\* an empty identity.
C25_SessionOnlyAfterValidation ==
    [][ \A h \in Conns :
          /\ (handlers[h].pc = "idle" /\ handlers'[h].pc \in {"check", "mkdir"}) =>
                /\ handlers[h].connectionInfo.set
                /\ Validated(h, handlers'[h].name)
          /\ (handlers[h].pc = "idle" /\ handlers'[h].pc = "refused") =>
                /\ streams' = streams
                /\ sp' = sp
                /\ dirs' = dirs
                /\ handlers'[h].streamProcess = Nil
                /\ handlers'[h].stream = Nil
          /\ handlers'[h].pc = "refused" => handlers'[h].streamProcess = Nil
          /\ handlers'[h].pc = "publishing" =>
                Validated(h, sp'[handlers'[h].streamProcess].username)
          /\ streams'[""] = Nil
          /\ \A s \in SessionIds : sp'[s] # Unborn => sp'[s].username # "" ]_vars

\* One connection with a captured username was refused its publishing name
\* while the other publishes the session registered for alice.
C25_Witness ==
    \E h, g \in Conns :
        /\ handlers[h].pc = "refused"
        /\ handlers[h].connectionInfo.Vars # <<>>
        /\ handlers[g].pc = "publishing"
        /\ streams["alice"] = handlers[g].streamProcess

----------------------------------------------------------------------------
(***************************************************************************)
(* Manager.GetActiveStreams: sm.streams.Range with a callback that loads   *)
(* the active flag of the value it is handed.  Range visits no key twice;  *)
(* a key stored or deleted while it runs may be reflected or not.          *)
(***************************************************************************)

\* GetActiveStreams is called: Range begins.
RangeStart ==
    /\ listing.pc = "idle"
    /\ listing' = [listing EXCEPT !.pc = "range", !.todo = DOMAIN streams,
                                  !.must = {u \in DOMAIN streams : streams[u] # Nil}]
    /\ UNCHANGED <<streams, sp, dirs, handlers, served, hist, flv, tag, auth>>

\* Range reads the entry of key u and calls the callback with its value.
RangeLoad(u) ==
    /\ listing.pc = "range" /\ listing.value = Nil
    /\ u \in listing.todo
    /\ streams[u] # Nil
    /\ listing' = [listing EXCEPT !.todo = listing.todo \ {u}, !.key = u,
                                  !.value = streams[u]]
    /\ UNCHANGED <<streams, sp, dirs, handlers, served, hist, flv, tag, auth>>

\* Range passes key u by: the key is absent now, or it was stored after Range
\* began.
RangeMiss(u) ==
    /\ listing.pc = "range" /\ listing.value = Nil
    /\ u \in listing.todo
    /\ streams[u] = Nil \/ u \notin listing.must
    /\ listing' = [listing EXCEPT !.todo = listing.todo \ {u}]
    /\ UNCHANGED <<streams, sp, dirs, handlers, served, hist, flv, tag, auth>>

\* The callback appending the key whatever the flag.
RangeTest_NoActiveTest ==
    /\ listing.pc = "range" /\ listing.value # Nil
    /\ listing' = [listing EXCEPT !.key = "", !.value = Nil,
                                  !.result = listing.result \cup {listing.key}]
    /\ UNCHANGED <<streams, sp, dirs, handlers, served, hist, flv, tag, auth>>

\* The callback: sp.active.Load() on the value, append(activeStreams, key)
\* when it is true; return true.
RangeTest ==
    /\ listing.pc = "range" /\ listing.value # Nil
    /\ listing' = [listing EXCEPT !.key = "", !.value = Nil,
                                  !.result = IF sp[listing.value].active
                                               THEN listing.result \cup {listing.key}
                                               ELSE listing.result]
    /\ UNCHANGED <<streams, sp, dirs, handlers, served, hist, flv, tag, auth>>

\* Range is over: GetActiveStreams returns activeStreams.
RangeReturn ==
    /\ listing.pc = "range" /\ listing.value = Nil
    /\ listing.todo = {}
    /\ listing' = [listing EXCEPT !.pc = "done"]
    /\ UNCHANGED <<streams, sp, dirs, handlers, served, hist, flv, tag, auth>>

\* One GetActiveStreams call while connections publish and close.
ListNext ==
    \/ \E h \in Conns, u \in Users : OnPublish(h, u)
    \/ Core
    \/ RangeStart
    \/ \E u \in Users : RangeLoad(u)
    \/ \E u \in Users : RangeMiss(u)
    \/ RangeTest
    \/ RangeReturn

ListSpec == Init /\ [][ListNext]_vars

\* C26: GetActiveStreams returns exactly the identities whose registry entry
\* has its active flag true at the moment the entry is inspected: an entry
\* inspected with its flag false is not listed, one inspected with its flag
\* true is listed, and no key that stays registered is passed by.
C26_ListsTheActiveEntries ==
    [][ /\ (listing.value # Nil /\ listing'.value = Nil) =>
              /\ (listing.key \in listing'.result) <=> sp[listing.value].active
              /\ listing'.result \ {listing.key} = listing.result
              /\ listing.key \notin listing.result
        /\ ~(listing.value # Nil /\ listing'.value = Nil) =>
              listing'.result = listing.result
        /\ \A u \in listing.todo \ listing'.todo :
              \/ listing'.value = streams[u] /\ listing'.key = u /\ streams[u] # Nil
              \/ streams[u] = Nil
              \/ u \notin listing.must
        /\ listing'.pc = "done" => listing'.todo = {} ]_vars

\* A call returned that listed one identity and left out another whose
\* registered session it found inactive.
C26_Witness ==
    /\ listing.pc = "done"
    /\ listing.result = {"alice"}
    /\ "bob" \in listing.must
    /\ streams["bob"] # Nil /\ ~sp[streams["bob"]].active

----------------------------------------------------------------------------
\* C27: a session becomes visible in the registry only after it is fully
\* constructed: when sm.streams comes to hold session s for username u, the
\* output directory of u was created, the subprocess of s was started, its
\* input pipe and cancel handle were set and its active flag was stored
\* true; before that only its own monitor can have changed it.
C27_VisibleOnlyWhenConstructed ==
    [][ \A u \in DOMAIN streams :
          (streams'[u] # Nil /\ streams'[u] # streams[u]) =>
             LET s == streams'[u] IN
               /\ sp[s].born /\ sp[s].username = u
               /\ sp[s].proc \in {"running", "exited"}
               /\ sp[s].stdinOpen \/ sp[s].reaped
               /\ sp[s].stdinCloses = 0 /\ ~sp[s].cancelled /\ sp[s].teardowns = 0
               /\ sp[s].active \/ sp[s].mon \in {"delete", "done"}
               /\ \/ u \in dirs
                  \/ \E t \in SessionsOf(u) \ {s} : sp[t].rmDone > 0 ]_vars

\* A session was stored by the connection that created it, and a second
\* GetOrCreateStream call for the same name has loaded it from the registry.
C27_Witness ==
    \E h, g \in Conns : \E s \in SessionIds :
        /\ handlers[h].pc = "publishing" /\ handlers[h].streamProcess = s
        /\ streams[sp[s].username] = s
        /\ handlers[g].pc = "check" /\ handlers[g].stream = s
        /\ sp[s].active /\ sp[s].proc = "running" /\ sp[s].stdinOpen

----------------------------------------------------------------------------
\* The step leaves the registry entry of username w and every session of w
\* as they are, and creates no session for w.
Same(w) ==
    /\ streams'[w] = streams[w]
    /\ \A s \in SessionIds :
          (sp[s].username = w /\ sp[s].born) \/ (sp'[s].username = w /\ sp'[s].born)
             => sp'[s] = sp[s]

\* The step is a failure of createNewStream in the publish of connection h.
CreationFails(h) ==
    handlers[h].pc \in {"mkdir", "start"} /\ handlers'[h].pc = "failed"

\* The step is one of the Stop that the goroutine of connection h runs.
StopSteps(h) ==
    /\ handlers[h].timer \in {"swap", "close", "cancel", "select"}
    /\ handlers'[h] # handlers[h]

\* The step is the exit of the subprocess of session s, or one of its monitor
\* or of the Wait and the removal that its Stop started.
SessionSteps(s) ==
    sp[s].born /\ sp'[s] # sp[s]

\* C28: a creation failure, a subprocess exit or a Stop for one identity
\* leaves the sessions of every other identity unchanged: their registry
\* entries, active flags, subprocesses and input sinks.
C28_OtherIdentitiesUntouched ==
    [][ /\ \A h \in Conns :
              CreationFails(h) => \A w \in Users : Same(w)
        /\ \A h \in Conns :
              StopSteps(h) =>
                 \A w \in Users \ {sp[handlers[h].streamProcess].username} : Same(w)
        /\ \A s \in SessionIds :
              SessionSteps(s) => \A w \in Users \ {sp[s].username} : Same(w) ]_vars

\* The session of one name was torn down by Stop and its subprocess has
\* exited, and the session of the other name is registered, active and
\* running with its pipe open.
C28_Witness ==
    \E s, t \in SessionIds :
        /\ sp[s].born /\ sp[s].teardowns > 0 /\ sp[s].proc = "exited"
        /\ sp[t].born /\ sp[t].username # sp[s].username
        /\ streams[sp[t].username] = t
        /\ sp[t].active /\ sp[t].proc = "running" /\ sp[t].stdinOpen

----------------------------------------------------------------------------
(***************************************************************************)
(* Frames written while Stop closes the stdin pipe: a connection closes    *)
(* once its last callback returned, its goroutine calls Stop after the     *)
(* reconnect delay, and a connection that was handed the same session goes *)
(* on delivering frames, video frames here.                                *)
(***************************************************************************)

\* The connection ends after a callback returned: the adapter calls OnClose.
ConnectionEnds(h) ==
    /\ flv.writer[h].pc = "idle"
    /\ OnClose(h)

SinkNext ==
    \/ \E h \in Conns : \E u \in Reconnecting : OnPublish(h, u)
    \/ \E h \in Conns : CheckActive(h)
    \/ \E h \in Conns : MkdirAll(h)
    \/ \E h \in Conns : StartProcess(h)
    \/ \E h \in Conns : StoreStream(h)
    \/ \E h \in Conns : ConnectionEnds(h)
    \/ \E h \in Conns : ReconnectTimer(h)
    \/ \E h \in Conns : StopSwap(h)
    \/ \E h \in Conns : StopCloseStdin(h)
    \/ \E h \in Conns : OnVideo(h)
    \/ \E h \in Conns : WriteHeader(h)
    \/ \E h \in Conns : WriteTagHeader(h)
    \/ \E h \in Conns : WriteTagData(h)
    \/ \E h \in Conns : WriteTagTrailer(h)

SinkSpec == Init /\ [][SinkNext]_vars

\* The Writes of the tag of frame n of connection h that reached sink q.
PartsOf(q, h, n) ==
    LET keep(c) == c.w = h /\ c.n = n /\ c.part # "flv"
    IN  [i \in 1..Len(SelectSeq(q, keep)) |-> SelectSeq(q, keep)[i].part]

\* C29: when the Write of the tag header, of the payload or of the trailer
\* fails, WriteTag returns that error at once, writes none of the remaining
\* parts of the tag and does not retry: a frame whose callback returned an
\* error has a proper prefix of its three Writes in the sink and gets no
\* more; and a Write after Stop has closed the session's stdin fails.
C29_FailedWriteEndsTheTag ==
    [][ \A h \in Conns :
          /\ ( /\ flv.writer[h].pc \in {"header", "data", "trailer"}
               /\ flv'.writer[h] # flv.writer[h]
               /\ \/ ~PipeOpen(handlers[h].streamProcess)
                  \/ sp[handlers[h].streamProcess].stdinCloses > 0 ) =>
                /\ flv'.writer[h].pc = "idle"
                /\ Len(flv.writer[h].frames) \in flv'.writer[h].failed
                /\ flv'.sink = flv.sink
          /\ \A n \in flv.writer[h].failed : \A s \in SessionIds :
                /\ PartsOf(flv'.sink[s], h, n) = PartsOf(flv.sink[s], h, n)
                /\ PartsOf(flv.sink[s], h, n) \in
                      {<<>>, <<"header">>, <<"header", "data">>}
          /\ flv.writer[h].failed \subseteq flv'.writer[h].failed ]_vars

\* Stop closed the stdin of a session between the header and the payload of
\* the first frame of a connection, whose second frame then failed whole.
C29_Witness ==
    \E h \in Conns : \E s \in SessionIds :
        /\ sp[s].stdinCloses > 0
        /\ handlers[h].pc = "publishing" /\ handlers[h].streamProcess = s
        /\ flv.writer[h].pc = "idle"
        /\ flv.writer[h].failed = {1, 2}
        /\ PartsOf(flv.sink[s], h, 1) = <<"header">>
        /\ PartsOf(flv.sink[s], h, 2) = <<>>

----------------------------------------------------------------------------
\* How far the teardown of a session has got: flag cleared, stdin closed,
\* cancel called, Wait goroutine started, Kill called, removal scheduled.
Progress(s) ==
    <<~sp[s].active, sp[s].stdinCloses, sp[s].cancelled, sp[s].stopWait # "none",
      sp[s].kills, sp[s].rmScheduled>>

----------------------------------------------------------------------------
\* GetOrCreateStream has stored session s: no call still holds it between
\* createNewStream and sm.streams.Store.
Registered(s) ==
    /\ sp[s].born
    /\ \A h \in Conns : ~(handlers[h].pc = "store" /\ handlers[h].stream = s)

\* GetOrCreateStream is called while no other call of it is in progress.
PublishAlone(h, u) ==
    /\ \A g \in Conns : handlers[g].pc \notin {"check", "delete", "mkdir", "start", "store"}
    /\ OnPublish(h, u)

\* Connections whose publishes come one after the other.
SeqNext ==
    \/ \E h \in Conns, u \in Users : PublishAlone(h, u)
    \/ Core

SeqSpec == Init /\ [][SeqNext]_vars

\* C31: in every reachable state every session whose construction has
\* completed and whose active flag is true is the value stored in the
\* registry under its username, once the call that created it has stored
\* it: no monitor or Stop of an earlier session of the username removes the
\* entry of a later session that is still active.
C31_ActiveSessionIsRegistered ==
    \A s \in SessionIds :
        (Registered(s) /\ sp[s].active) => streams[sp[s].username] = s

----------------------------------------------------------------------------
\* The step is the Swap of a Stop that connection h's goroutine calls.
SwapStep(h) ==
    handlers[h].timer = "swap" /\ handlers'[h].timer # "swap"

\* The subprocess of session s ended by itself: it exited and no Stop had
\* torn the session down or cancelled it.
OrganicExit(s) ==
    sp[s].proc = "exited" /\ sp[s].teardowns = 0 /\ ~sp[s].cancelled

\* C32, as stated: the lifecycle only moves forward, and a Stop issued after
\* the subprocess of the session exited by itself closes nothing, kills
\* nothing and schedules no removal.
C32_StopAfterExitIsNoOp ==
    [][ \A h \in Conns :
          (SwapStep(h) /\ OrganicExit(handlers[h].streamProcess)) =>
              /\ sp' = sp
              /\ UNCHANGED <<streams, dirs>> ]_vars

\* C32, amended: the active flag of a session is true when its construction
\* ends and is never stored true again; once false it stays false, a
\* subprocess that exited stays exited and a teardown that began is not
\* undone; and a Stop issued after the flag has become false (after the
\* monitor stored false following an exit of the subprocess, or after
\* another Stop) changes nothing: it closes nothing, kills nothing and
\* schedules no removal.
C32_StopOnInactiveIsNoOp ==
    [][ /\ \A s \in SessionIds :
              /\ (~sp[s].born /\ sp'[s].born) => sp'[s].active
              /\ sp[s].born => sp'[s].born
              /\ (sp[s].born /\ ~sp[s].active) => ~sp'[s].active
              /\ sp[s].proc = "exited" => sp'[s].proc = "exited"
              /\ sp'[s].teardowns >= sp[s].teardowns
        /\ \A h \in Conns :
              (SwapStep(h) /\ ~sp[handlers[h].streamProcess].active) =>
                  /\ sp' = sp
                  /\ UNCHANGED <<streams, dirs>>
                  /\ handlers'[h] = Gone ]_vars

\* Stop is being called, IsActive having returned true, on a session whose
\* subprocess exited by itself and whose monitor has stored false since.
C32_Witness ==
    \E h \in Conns :
        /\ handlers[h].timer = "swap"
        /\ OrganicExit(handlers[h].streamProcess)
        /\ ~sp[handlers[h].streamProcess].active
        /\ sp[handlers[h].streamProcess].mon \in {"delete", "done"}

----------------------------------------------------------------------------
(***************************************************************************)
(* The package-level flv.WriteTag, which reads its payload from an         *)
(* io.Reader, next to Writer.WriteTag: both are called with the same tag   *)
(* type, timestamp and payload, each on a buffer of its own.  tag.reader   *)
(* is the call of flv.WriteTag: whether it was made, what it wrote, and    *)
(* whether it returned an error.                                           *)
(***************************************************************************)

\* hdr of flv.WriteTag with hdr[1], the high byte of the size, left at zero.
hdr_SizeHighByteZero(tagType, dataSize, timestamp) ==
    << tagType,
       0, Byte(dataSize \div 256), Byte(dataSize),
       Byte(timestamp.hi), Byte(timestamp.lo \div 256), Byte(timestamp.lo),
       Byte(timestamp.hi \div 256), 0, 0, 0 >>

\* var hdr [11]byte of flv.WriteTag: hdr[0] the type, hdr[1..3] the bytes of
\* the int dataSize, hdr[4..6] the low bytes of the timestamp, hdr[7] its
\* high byte; hdr[8..10] keep the zero of the declaration.
hdr(tagType, dataSize, timestamp) ==
    [i \in 1..11 |->
        CASE i = 1 -> tagType
          [] i = 2 -> Byte(dataSize \div 65536)
          [] i = 3 -> Byte(dataSize \div 256)
          [] i = 4 -> Byte(dataSize)
          [] i = 5 -> Byte(timestamp.hi)
          [] i = 6 -> Byte(timestamp.lo \div 256)
          [] i = 7 -> Byte(timestamp.lo)
          [] i = 8 -> Byte(timestamp.hi \div 256)
          [] OTHER -> 0]

\* Both calls get arguments drawn from the sets of the tag section.
PairInit ==
    /\ listing = NoListing
    /\ streams = [u \in Users |-> Nil]
    /\ sp = [s \in SessionIds |-> Unborn]
    /\ dirs = {}
    /\ handlers = [h \in Conns |-> Connected]
    /\ served = 0
    /\ hist = NoHist
    /\ flv = NoFlv
    /\ auth = NoAuth
    /\ tag \in [tagType : Kinds, timestamp : Timestamps, data : Payloads,
                called : {FALSE}, out : {<<>>}, err : {FALSE},
                reader : {[called |-> FALSE, out |-> <<>>, err |-> FALSE]}]

\* flv.WriteTag: io.ReadAll(r), whose error is returned before anything is
\* written; then Write(hdr[:]), Write(payload) and Write(prev[:]) with prev
\* the big-endian uint32(len(hdr) + dataSize), of which PutUint32 keeps the
\* low 32 bits; no Write fails.
flvWriteTag ==
    /\ ~tag.reader.called
    /\ \/ tag' = [tag EXCEPT !.reader = [called |-> TRUE, out |-> <<>>, err |-> TRUE]]
       \/ tag' = [tag EXCEPT !.reader =
                    [called |-> TRUE,
                     out |-> << hdr(tag.tagType, tag.data.len, tag.timestamp),
                                tag.data,
                                PutUint32(11 + tag.data.len) >>,
                     err |-> FALSE]]
    /\ UNCHANGED <<streams, sp, dirs, handlers, served, hist, flv, auth, listing>>

PairNext ==
    \/ WriteTag
    \/ flvWriteTag

PairSpec == PairInit /\ [][PairNext]_vars

\* C33: the two tag serializers agree: for every tag type, timestamp and
\* payload, flv.WriteTag, once it has read the payload, writes the same
\* three pieces, byte for byte, as Writer.WriteTag does for the same inputs,
\* and both return nil.
C33_SerializersAgree ==
    (tag.called /\ tag.reader.called /\ ~tag.reader.err) =>
        /\ ~tag.err
        /\ Len(tag.reader.out) = Len(tag.out)
        /\ \A i \in 1..Len(tag.out) : tag.reader.out[i] = tag.out[i]

\* Both serializers wrote a script tag whose payload does not fit in 24
\* bits and whose timestamp has bits above the low 24.
C33_Witness ==
    /\ tag.called /\ tag.reader.called /\ ~tag.reader.err
    /\ tag.tagType = TagScript
    /\ tag.data.len = Limit24 + 1
    /\ tag.timestamp.hi >= 256
    /\ Len(tag.reader.out) = 3

====
